---- MODULE Spec2Model ----
(***************************************************************************)
(* Verification model of the teams-cli authentication / session-refresh    *)
(* subsystem.                                                              *)
(*                                                                         *)
(*   Spec         the request paths of AppState, run by two concurrent     *)
(*                goroutines, together with the refresh coordinator        *)
(*                (refreshAuthFromTeamsToken) they call.                   *)
(*   SpecCallers  the refresh coordinator called directly (as the error    *)
(*                page's "Run auth refresh" button does) by NumCallers     *)
(*                concurrent goroutines.                                   *)
(*   SpecPoll     the device-code poll loop (pollDeviceCode) against a     *)
(*                discrete wall clock counted in seconds.                  *)
(*   SpecDevice   the device-code path (refreshAuthFromDeviceCode) step by *)
(*                step, with the token files it writes and an external     *)
(*                reader of those files.                                   *)
(*   SpecFallback one caller of refreshAuthFromTeamsToken on a host whose  *)
(*                files, commands and environment flags decide what the    *)
(*                fallback runner does, together with the UI event loop.   *)
(*   SpecWrapper  one run of the shell script that wrapWithXwayland puts   *)
(*                around the helper.                                       *)
(*   SpecPages    the pages of the UI from the start of the process: the   *)
(*                main window, the error page and its buttons.             *)
(*   SpecScan     the unread scans started by the ticker loop and by the   *)
(*                scan-now key.                                            *)
(***************************************************************************)
EXTENDS Integers, Sequences, FiniteSets, TLC

(***************************************************************************)
(* Bounds of the model.                                                    *)
(***************************************************************************)
\* Goroutines that call the refresh directly in SpecCallers.
NumCallers == 3
\* Times the identity provider or the helper hands out fresh credentials.
MaxRefreshes == 2
\* Conversation ids one sendMessage / fetchConversationMessages call carries.
MaxIds == 2
\* Seconds one HTTP round trip to the identity provider may take.
MaxLatency == 1
\* slow_down responses the provider gives in one session.
MaxSlowDowns == 2
\* The short device-code lifetimes (expires_in, seconds) that are tried.
MaxShortExpiry == 2

\* The two goroutines that run request paths in Spec.
Workers == {1, 2}
Callers == 1..NumCallers
NoOne == 0

(***************************************************************************)
(* The request paths of AppState that use s.teamsClient, and the error     *)
(* page's "Run auth refresh" button, which calls the refresh directly.     *)
(***************************************************************************)
RefreshingPaths ==
    {"sendMessage", "sendReactionRequest", "fetchConversationMessages",
     "refreshUnreadMarkers"}
RequestPaths == RefreshingPaths \cup {"fetchContactCandidatesFromAPI"}
Paths == RequestPaths \cup {"authButton"}

\* Paths that build the request with ChatSvc().AuthenticatedRequest and then
\* issue it with http.DefaultClient.Do; the others call a client method.
BuildsRequest ==
    {"sendMessage", "sendReactionRequest", "fetchContactCandidatesFromAPI"}

\* Number of endpoints fetchContactCandidatesFromAPI walks through.
NumContactEndpoints == 3

\* The number of loop items (conversation ids, endpoints) a call may carry.
ItemCounts(p) ==
    CASE p \in {"sendMessage", "fetchConversationMessages"} -> 1..MaxIds
      [] p = "fetchContactCandidatesFromAPI" -> {NumContactEndpoints}
      [] OTHER -> {1}

VARIABLES
    authRefreshMu,   \* goroutine holding AppState.authRefreshMu, or NoOne
    teamsClient,     \* s.teamsClient: [id, gen] of the live client handle
    clientCount,     \* number of handles teams_api.New() has built after start
    tokenGen,        \* generation of the credentials in the token store
    envDisableDeviceCode, \* TEAMS_CLI_DISABLE_DEVICE_CODE is 1/true/yes
    pc,              \* position of each goroutine
    path,            \* request path each goroutine is running
    itemsLeft,       \* remaining conversation ids / endpoints of the call
    attempt,         \* the attempt counter of the retry loop
    handle,          \* the client handle the goroutine read from s.teamsClient
    deviceErr,       \* refresh local: result of refreshAuthFromDeviceCode
    interactive,     \* refresh local: helper runs under app.Suspend
    refreshErr,      \* value returned by refreshAuthFromTeamsToken
    newClient,       \* refresh local: the handle teams_api.New() returned
    \* history variables
    clientAtLock,    \* s.teamsClient when the goroutine took the lock
    genAtLock,       \* tokenGen when the goroutine took the lock
    arrivedBusy,     \* the call began while another call was outstanding
    didAuthWork,     \* the call contacted the provider or launched the helper
    probed,          \* the call ran a step of the fallback runner
    lastRefreshed,   \* id of the handle installed by the latest refresh
                     \* that has returned success (0: none yet)
    lastIssued,      \* the backend request the last step sent out, if any:
                     \* "none", or its handle was "fresh" or "stale"
    \* device-code poll loop (SpecPoll)
    clock,           \* wall clock, seconds since the context was created
    pollPc,          \* position inside pollDeviceCode
    device,          \* the deviceCodeResponse: [ExpiresIn, Interval]
    deadline,        \* pollDeviceCode local: expiry of the device code
    interval,        \* pollDeviceCode local: current poll interval, seconds
    payload,         \* pollDeviceCode local: the last token response
    pollResult,      \* what pollDeviceCode returned
    \* history variables of the poll loop
    lastSleep,       \* duration of the latest time.Sleep
    slowDowns,       \* slow_down responses received in this session
    sleptSince,      \* a sleep happened after the latest response
    \* device-code path and token store (SpecDevice)
    devPc,           \* position inside refreshAuthFromDeviceCode
    tokenResp,       \* the tokenResponse pollDeviceCode returned
    devResult,       \* what refreshAuthFromDeviceCode returned
    files,           \* content of each token file under ~/.config/fossteams
    wr,              \* the writeTokenFile call in progress
    \* history variables of the device-code path
    grants,          \* refresh_token grants sent in this attempt
    written,         \* token files completely written in this attempt
    observed,        \* what an external reader just read from a token file
    \* fallback runner on a host (SpecFallback)
    host,            \* files, commands and flags of the host
    nodeModules,     \* the helper's node_modules directory exists
    fbPc,            \* position inside refreshAuthFromTeamsToken
    fbDeviceErr,     \* local deviceErr
    fbCmd,           \* the command buildTeamsTokenCommand returned
    fbWrap,          \* how wrapWithTermEverything wrapped it
    fbErr,           \* what refreshAuthFromTeamsToken returned
    uiSuspended,     \* the tview application is inside Suspend
    statusQueued,    \* the status text waiting in the UI's update queue
    statusText,      \* the status text on the screen
    \* history variables of the fallback runner
    installRuns,     \* runs of the install command since the process began
    contacted,       \* this call sent a request to the identity provider
    launched,        \* processes this call has launched
    tried,           \* runner strategies this call has attempted
    \* the Xwayland wrapper script (SpecWrapper)
    xwPc,            \* position inside the script
    xwI,             \* iterations of the socket wait loop begun so far
    xwProc,          \* state of Xwayland, the window manager, the helper
    xwSocket,        \* the X server's socket file exists
    xwTrap,          \* the EXIT trap is installed
    xwStatus,        \* exit status of the script (-1: still running)
    \* history variables of the wrapper script
    xwSlept,         \* tenths of a second slept in the wait loop
    xwSeen,          \* the test after the loop found the socket
    xwKilled,        \* processes the EXIT trap has signalled
    \* pages of the UI (SpecPages)
    page,            \* the page s.pages shows
    startPc,         \* position of the start() / fillMainWindow goroutines
    credsOk,         \* the token store holds usable credentials
    stateInit,       \* TeamsState.init has succeeded
    treeFilled,      \* fillMainWindow has set the chat tree's root
    needsAuth,       \* the error page shows the "Run auth refresh" button
    btnPc,           \* position of the button handler's goroutine
    loadPc,          \* position of loadConversationsByIDs after a failure
    \* unread scans (SpecScan)
    unreadScanRunning, \* s.unreadScanRunning
    unreadScanEnabled, \* s.unreadScanEnabled
    scanPc,          \* position of each goroutine that can run a scan
    \* history variable of the unread scans
    scanDones,       \* markUnreadScanDone calls of each goroutine's scan
    unreadLastChanges \* the argument of the last markUnreadScanDone

sharedVars ==
    <<authRefreshMu, teamsClient, clientCount, tokenGen, envDisableDeviceCode>>

pathVars == <<path, itemsLeft, attempt, handle>>

refreshLocals ==
    <<deviceErr, interactive, newClient, clientAtLock, genAtLock, didAuthWork,
      probed>>

coordVars ==
    <<sharedVars, pc, pathVars, refreshLocals, refreshErr, arrivedBusy,
      lastRefreshed, lastIssued>>

pollVars ==
    <<clock, pollPc, device, deadline, interval, payload, pollResult,
      lastSleep, slowDowns, sleptSince>>

deviceVars ==
    <<devPc, tokenResp, devResult, files, wr, grants, written, observed>>

fallbackState ==
    <<host, nodeModules, fbPc, fbDeviceErr, fbCmd, fbWrap, fbErr,
      installRuns, contacted, launched, tried>>

uiVars == <<uiSuspended, statusQueued, statusText>>

fallbackVars == <<fallbackState, uiVars>>

wrapperVars ==
    <<xwPc, xwI, xwProc, xwSocket, xwTrap, xwStatus, xwSlept, xwSeen,
      xwKilled>>

pageVars ==
    <<page, startPc, credsOk, stateInit, treeFilled, needsAuth, btnPc,
      loadPc>>

scanVars ==
    <<unreadScanRunning, unreadScanEnabled, scanPc, scanDones,
      unreadLastChanges>>

appVars == <<wrapperVars, pageVars, scanVars>>

vars == <<coordVars, pollVars, deviceVars, fallbackVars, appVars>>

\* The goroutines of the running specification.
Procs == DOMAIN pc

(***************************************************************************)
(* Client handles.  A handle is identified by the order in which           *)
(* teams_api.New() built it (id 0 is the one start() built) and remembers  *)
(* the generation of the token store it was built from.                    *)
(***************************************************************************)
NilClient == [id |-> -1, gen |-> -1]
StartClient == [id |-> 0, gen |-> 0]

\* Positions of a goroutine inside refreshAuthFromTeamsToken with the lock held.
RefreshSeqPcs ==
    {"rDevice", "rNewDev", "rFindDir", "rBuild", "rWrap", "rRun", "rNewFb",
     "rUnlock"}
\* Positions of the fallback runner.
FallbackPcs == {"rFindDir", "rBuild", "rWrap", "rRun", "rNewFb"}
\* Positions of an outstanding call of refreshAuthFromTeamsToken.
RefreshPcs == RefreshSeqPcs \cup {"rLock"}

(***************************************************************************)
(* sync.Mutex.Lock on authRefreshMu: blocks until the mutex is free.       *)
(***************************************************************************)
MuLockNoWait(g) ==
    authRefreshMu' = g

MuLock(g) ==
    /\ authRefreshMu = NoOne
    /\ authRefreshMu' = g

\* The branch on the result of refreshAuthFromDeviceCode.
AfterDeviceCodeAlwaysFallback(err) ==
    "rFindDir"

AfterDeviceCode(err) ==
    IF err = "nil" THEN "rNewDev" ELSE "rFindDir"

\* s.teamsClient after teams_api.New() returned (built, newClientErr == nil).
InstallClientNever(ok, built, old) ==
    old

InstallClient(ok, built, old) ==
    IF ok THEN built ELSE old

\* The error returned when the helper command fails.
RunError(isInteractive, devErr) ==
    IF isInteractive THEN "runFailed"
    ELSE IF devErr # "nil" THEN "combined" ELSE "runFailedOutput"

(***************************************************************************)
(* Entry into refreshAuthFromTeamsToken (the call, before Lock returns).   *)
(***************************************************************************)
EnterRefresh(g) ==
    /\ pc' = [pc EXCEPT ![g] = "rLock"]
    /\ arrivedBusy' = [arrivedBusy EXCEPT
                         ![g] = \E h \in Procs \ {g} : pc[h] \in RefreshPcs]
    /\ refreshErr' = [refreshErr EXCEPT ![g] = "none"]

\* s.authRefreshMu.Lock()
RefreshLock(g) ==
    /\ pc[g] = "rLock"
    /\ MuLock(g)
    /\ pc' = [pc EXCEPT ![g] = "rDevice"]
    /\ clientAtLock' = [clientAtLock EXCEPT ![g] = teamsClient]
    /\ genAtLock' = [genAtLock EXCEPT ![g] = tokenGen]
    /\ lastIssued' = "none"
    /\ UNCHANGED <<teamsClient, clientCount, tokenGen, envDisableDeviceCode,
                   pathVars, deviceErr, interactive, newClient, didAuthWork,
                   probed, refreshErr, arrivedBusy, lastRefreshed,
                   pollVars>>

\* s.refreshAuthFromDeviceCode(): the whole device-code path, which runs
\* under the lock and touches no shared state but the token store.
RefreshDeviceCode(g, res) ==
    /\ pc[g] = "rDevice"
    /\ res \in {"disabled", "failed", "nil"}
    /\ (res = "disabled") <=> envDisableDeviceCode
    /\ res = "nil" => tokenGen < MaxRefreshes
    /\ deviceErr' = [deviceErr EXCEPT ![g] = res]
    /\ didAuthWork' = [didAuthWork EXCEPT ![g] = (res # "disabled")]
    /\ tokenGen' = IF res = "nil" THEN tokenGen + 1 ELSE tokenGen
    /\ pc' = [pc EXCEPT ![g] = AfterDeviceCode(res)]
    /\ lastIssued' = "none"
    /\ UNCHANGED <<authRefreshMu, teamsClient, clientCount,
                   envDisableDeviceCode, pathVars, interactive, newClient,
                   clientAtLock, genAtLock, probed, refreshErr, arrivedBusy,
                   lastRefreshed, pollVars>>

\* teams_api.New() and the assignment to s.teamsClient, on either path.
RefreshNewClient(g, ok) ==
    /\ pc[g] \in {"rNewDev", "rNewFb"}
    /\ LET built == [id |-> clientCount + 1, gen |-> tokenGen]
       IN  /\ newClient' = [newClient EXCEPT
                              ![g] = IF ok THEN built ELSE NilClient]
           /\ clientCount' = IF ok THEN clientCount + 1 ELSE clientCount
           /\ teamsClient' = InstallClient(ok, built, teamsClient)
    /\ refreshErr' = [refreshErr EXCEPT ![g] = IF ok THEN "nil" ELSE "reinit"]
    /\ pc' = [pc EXCEPT ![g] = "rUnlock"]
    /\ lastIssued' = "none"
    /\ UNCHANGED <<authRefreshMu, tokenGen, envDisableDeviceCode, pathVars,
                   deviceErr, interactive, clientAtLock, genAtLock,
                   didAuthWork, probed, arrivedBusy, lastRefreshed, pollVars>>

\* findTeamsTokenDir()
RefreshFindDir(g, found) ==
    /\ pc[g] = "rFindDir"
    /\ probed' = [probed EXCEPT ![g] = TRUE]
    /\ IF found
       THEN /\ pc' = [pc EXCEPT ![g] = "rBuild"]
            /\ UNCHANGED refreshErr
       ELSE /\ pc' = [pc EXCEPT ![g] = "rUnlock"]
            /\ refreshErr' = [refreshErr EXCEPT ![g] = "noDir"]
    /\ lastIssued' = "none"
    /\ UNCHANGED <<sharedVars, pathVars, deviceErr, interactive, newClient,
                   clientAtLock, genAtLock, didAuthWork, arrivedBusy,
                   lastRefreshed, pollVars>>

\* buildTeamsTokenCommand(): a command, or one of its errors.
BuildResults == {"ok", "installFailed", "noPackageManager", "noRunner"}

RefreshBuildCommand(g, res) ==
    /\ pc[g] = "rBuild"
    /\ res \in BuildResults
    /\ IF res = "ok"
       THEN /\ pc' = [pc EXCEPT ![g] = "rWrap"]
            /\ UNCHANGED refreshErr
       ELSE /\ pc' = [pc EXCEPT ![g] = "rUnlock"]
            /\ refreshErr' = [refreshErr EXCEPT ![g] = res]
    /\ lastIssued' = "none"
    /\ UNCHANGED <<sharedVars, pathVars, refreshLocals, arrivedBusy,
                   lastRefreshed, pollVars>>

\* wrapWithTermEverything(): wrapped (ok), not wrapped, or wrapErr.
WrapResults == {"wrapped", "plain", "wrapErr"}

RefreshWrap(g, res) ==
    /\ pc[g] = "rWrap"
    /\ res \in WrapResults
    /\ interactive' = [interactive EXCEPT ![g] = (res = "wrapped")]
    /\ IF res = "wrapErr"
       THEN /\ pc' = [pc EXCEPT ![g] = "rUnlock"]
            /\ refreshErr' = [refreshErr EXCEPT ![g] = "wrapErr"]
       ELSE /\ pc' = [pc EXCEPT ![g] = "rRun"]
            /\ UNCHANGED refreshErr
    /\ lastIssued' = "none"
    /\ UNCHANGED <<sharedVars, pathVars, deviceErr, newClient, clientAtLock,
                   genAtLock, didAuthWork, probed, arrivedBusy, lastRefreshed, pollVars>>

\* cmd.Run() under app.Suspend, or cmd.CombinedOutput(); a helper that exits
\* zero has written fresh tokens.
RefreshRun(g, ok) ==
    /\ pc[g] = "rRun"
    /\ ok => tokenGen < MaxRefreshes
    /\ didAuthWork' = [didAuthWork EXCEPT ![g] = TRUE]
    /\ IF ok
       THEN /\ pc' = [pc EXCEPT ![g] = "rNewFb"]
            /\ tokenGen' = tokenGen + 1
            /\ UNCHANGED refreshErr
       ELSE /\ pc' = [pc EXCEPT ![g] = "rUnlock"]
            /\ refreshErr' = [refreshErr EXCEPT
                                ![g] = RunError(interactive[g], deviceErr[g])]
            /\ UNCHANGED tokenGen
    /\ lastIssued' = "none"
    /\ UNCHANGED <<authRefreshMu, teamsClient, clientCount,
                   envDisableDeviceCode, pathVars, deviceErr, interactive,
                   newClient, clientAtLock, genAtLock, probed, arrivedBusy,
                   lastRefreshed, pollVars>>

\* The deferred s.authRefreshMu.Unlock() and the return to the caller; the
\* locals of the call die with it.
RefreshUnlock(g) ==
    /\ pc[g] = "rUnlock"
    /\ authRefreshMu' = NoOne
    /\ pc' = [pc EXCEPT ![g] = "rRet"]
    /\ lastRefreshed' = IF refreshErr[g] = "nil" THEN newClient[g].id
                        ELSE lastRefreshed
    /\ deviceErr' = [deviceErr EXCEPT ![g] = "unset"]
    /\ interactive' = [interactive EXCEPT ![g] = FALSE]
    /\ newClient' = [newClient EXCEPT ![g] = NilClient]
    /\ clientAtLock' = [clientAtLock EXCEPT ![g] = NilClient]
    /\ genAtLock' = [genAtLock EXCEPT ![g] = -1]
    /\ didAuthWork' = [didAuthWork EXCEPT ![g] = FALSE]
    /\ probed' = [probed EXCEPT ![g] = FALSE]
    /\ arrivedBusy' = [arrivedBusy EXCEPT ![g] = FALSE]
    /\ lastIssued' = "none"
    /\ UNCHANGED <<teamsClient, clientCount, tokenGen, envDisableDeviceCode,
                   pathVars, refreshErr, pollVars>>

(***************************************************************************)
(* The request paths.  Each reads s.teamsClient without a lock, issues the *)
(* backend request with the handle it read, and on an unauthorized result  *)
(* of attempt 0 calls refreshAuthFromTeamsToken and retries.  The read     *)
(* races with the assignment in the refresh; it yields the old or the new  *)
(* pointer, which are the two orders of the ReadClient step and the        *)
(* RefreshNewClient step.                                                  *)
(***************************************************************************)
Results == {"ok", "unauth", "err"}

\* What a path does with the result of a stage ("build": AuthenticatedRequest
\* returned err; "do": the backend answered): "refresh", "return", or "break"
\* (leave the attempt loop and go on with the next id or endpoint, if any).
OnResultRefreshOnRetry(p, stage, att, res) ==
    IF p = "fetchContactCandidatesFromAPI"
    THEN IF res = "ok" /\ stage = "do" THEN "return" ELSE "break"
    ELSE IF res = "unauth" THEN "refresh" ELSE "return"

OnResult(p, stage, att, res) ==
    CASE p = "sendMessage" ->
           IF res = "ok" THEN "return"
           ELSE IF res = "unauth" /\ att = 0 THEN "refresh" ELSE "break"
      [] p = "sendReactionRequest" ->
           IF res = "ok" THEN "return"
           ELSE IF res = "unauth" /\ att = 0 THEN "refresh" ELSE "return"
      [] p = "fetchConversationMessages" ->
           IF res = "ok" THEN "return"
           ELSE IF res = "unauth" /\ att = 0 THEN "refresh" ELSE "break"
      [] p = "refreshUnreadMarkers" ->
           IF res = "unauth" /\ att = 0 THEN "refresh" ELSE "return"
      [] p = "fetchContactCandidatesFromAPI" ->
           IF res = "ok" /\ stage = "do" THEN "return" ELSE "break"

\* What a path does once refreshAuthFromTeamsToken has returned refreshErr.
AfterRefresh(p, err) ==
    CASE p = "authButton" -> "return"
      [] p \in {"sendMessage", "fetchConversationMessages"} ->
           IF err = "nil" THEN "continue" ELSE "break"
      [] OTHER ->
           IF err = "nil" THEN "continue" ELSE "return"

\* The locals of a goroutine that is not inside a call.
Finish(g) ==
    /\ pc' = [pc EXCEPT ![g] = "idle"]
    /\ path' = [path EXCEPT ![g] = "none"]
    /\ itemsLeft' = [itemsLeft EXCEPT ![g] = 0]
    /\ attempt' = [attempt EXCEPT ![g] = 0]
    /\ handle' = [handle EXCEPT ![g] = NilClient]

\* Leave the attempt loop: the next id or endpoint, or the end of the call.
Break(g) ==
    IF itemsLeft[g] > 1
    THEN /\ pc' = [pc EXCEPT ![g] = "loopTop"]
         /\ itemsLeft' = [itemsLeft EXCEPT ![g] = itemsLeft[g] - 1]
         /\ attempt' = [attempt EXCEPT ![g] = 0]
         /\ handle' = [handle EXCEPT ![g] = NilClient]
         /\ UNCHANGED path
    ELSE Finish(g)

\* Act on the outcome of a stage.
Dispatch(g, what) ==
    CASE what = "refresh" ->
           /\ EnterRefresh(g)
           /\ UNCHANGED pathVars
      [] what = "return" -> Finish(g) /\ UNCHANGED <<refreshErr, arrivedBusy>>
      [] what = "break" -> Break(g) /\ UNCHANGED <<refreshErr, arrivedBusy>>

\* A goroutine begins one of the request paths, or the auth button's handler.
CallPath(g, p, n) ==
    /\ pc[g] = "idle"
    /\ p \in Paths
    /\ n \in ItemCounts(p)
    /\ path' = [path EXCEPT ![g] = p]
    /\ itemsLeft' = [itemsLeft EXCEPT ![g] = n]
    /\ attempt' = [attempt EXCEPT ![g] = 0]
    /\ IF p = "authButton"
       THEN EnterRefresh(g)
       ELSE /\ pc' = [pc EXCEPT ![g] = "loopTop"]
            /\ UNCHANGED <<refreshErr, arrivedBusy>>
    /\ lastIssued' = "none"
    /\ UNCHANGED <<sharedVars, handle, refreshLocals, lastRefreshed, pollVars>>

\* The read of s.teamsClient at the top of an attempt; on the paths that use
\* ChatSvc().AuthenticatedRequest, also the construction of the request from
\* that handle, which can itself fail.
ReadClient(g, res) ==
    /\ pc[g] = "loopTop"
    /\ res \in Results
    /\ path[g] \notin BuildsRequest => res = "ok"
    /\ IF res = "ok"
       THEN /\ pc' = [pc EXCEPT ![g] = "do"]
            /\ handle' = [handle EXCEPT ![g] = teamsClient]
            /\ UNCHANGED <<path, itemsLeft, attempt, refreshErr, arrivedBusy>>
       ELSE Dispatch(g, OnResult(path[g], "build", attempt[g], res))
    /\ lastIssued' = "none"
    /\ UNCHANGED <<sharedVars, refreshLocals, lastRefreshed,
                   pollVars>>

\* Whether a request that goes out with handle h reuses a handle built
\* before a refresh that has already returned success.
Staleness(h, latest) ==
    IF h.id < latest THEN "stale" ELSE "fresh"

\* The backend request goes out with the handle read earlier, and is answered.
IssueRequest(g, res) ==
    /\ pc[g] = "do"
    /\ res \in Results
    /\ lastIssued' = Staleness(handle[g], lastRefreshed)
    /\ Dispatch(g, OnResult(path[g], "do", attempt[g], res))
    /\ UNCHANGED <<sharedVars, refreshLocals, lastRefreshed, pollVars>>

\* The caller resumes after refreshAuthFromTeamsToken has returned.
AfterRefreshReturn(g) ==
    /\ pc[g] = "rRet"
    /\ LET what == AfterRefresh(path[g], refreshErr[g])
       IN  CASE what = "continue" ->
                  /\ pc' = [pc EXCEPT ![g] = "loopTop"]
                  /\ attempt' = [attempt EXCEPT ![g] = attempt[g] + 1]
                  /\ handle' = [handle EXCEPT ![g] = NilClient]
                  /\ UNCHANGED <<path, itemsLeft>>
             [] what = "break" -> Break(g)
             [] what = "return" -> Finish(g)
    /\ refreshErr' = [refreshErr EXCEPT ![g] = "none"]
    /\ lastIssued' = "none"
    /\ UNCHANGED <<sharedVars, refreshLocals, arrivedBusy, lastRefreshed, pollVars>>

\* The zero value of the poll loop's payload: no response decoded yet.
NoPayload == [Error |-> "<none>", AccessToken |-> FALSE]

(***************************************************************************)
(* Values of the device-code path and of the fallback runner while neither *)
(* is running.  Strings that the code inspects byte by byte (tokens, file  *)
(* contents) are sequences of characters.                                  *)
(***************************************************************************)
\* The token files writeTokenFile is called for, in the order of the calls.
TokenKinds == <<"teams", "skype", "chatsvcagg">>
TokenKindSet == {TokenKinds[i] : i \in 1..Len(TokenKinds)}

\* No tokenResponse: pollDeviceCode has not returned one.
NoTokenResp == [IDToken |-> <<"?">>, AccessToken |-> <<"?">>,
                RefreshToken |-> <<"?">>]
\* A token file that does not exist.
NoFile == [exists |-> FALSE, data |-> <<>>]
\* No writeTokenFile call is in progress.
NoWrite == [kind |-> "none", data |-> <<>>, prev |-> NoFile, open |-> FALSE]
\* The external reader has not just read a file.
NoRead == [kind |-> "none", file |-> NoFile]

DeviceIdle ==
    /\ devPc = "off"
    /\ tokenResp = NoTokenResp
    /\ devResult = "none"
    /\ files = [k \in TokenKindSet |-> NoFile]
    /\ wr = NoWrite
    /\ grants = <<>>
    /\ written = <<>>
    /\ observed = NoRead

\* A host with no helper, no term.everything and no tools.
NoHost ==
    [roots |-> <<{}, {}>>, binary |-> "absent", goMod |-> FALSE,
     packageJson |-> FALSE, yarnLock |-> FALSE, yarn |-> FALSE,
     npm |-> FALSE, termBinary |-> FALSE, go |-> FALSE,
     disableTermEverything |-> FALSE, ozone |-> FALSE, xDisplay |-> "ok"]
\* No command: buildTeamsTokenCommand has not returned.
NoCmd == [runner |-> "unset", installer |-> "none", builder |-> "none",
          err |-> "nil", checked |-> <<>>]
\* No error value: refreshAuthFromTeamsToken has not returned.
NoErr == [kind |-> "none", device |-> FALSE, checked |-> <<>>]

FallbackLocalsIdle ==
    /\ fbDeviceErr = "unset"
    /\ fbCmd = NoCmd
    /\ fbWrap = "unset"
    /\ fbErr = NoErr
    /\ contacted = FALSE
    /\ launched = {}
    /\ tried = {}

UiIdle ==
    /\ uiSuspended = FALSE
    /\ statusQueued = "none"
    /\ statusText = "none"

\* The processes of the wrapper script, and the goroutines that run scans:
\* the ticker loop and two presses of the scan-now key.
WrapperProcs == {"Xwayland", "wm", "helper"}
BackgroundProcs == {"Xwayland", "wm"}
Scanners == {"loop", "key1", "key2"}

\* The wrapper script is not running.
WrapperIdle ==
    /\ xwPc = "off"
    /\ xwI = 0
    /\ xwProc = [p \in WrapperProcs |-> "none"]
    /\ xwSocket = FALSE
    /\ xwTrap = FALSE
    /\ xwStatus = -1
    /\ xwSlept = 0
    /\ xwSeen = FALSE
    /\ xwKilled = {}

\* The pages as SetupUI leaves them, start() not running.
PagesIdle ==
    /\ page = "login"
    /\ startPc = "off"
    /\ credsOk = TRUE
    /\ stateInit = FALSE
    /\ treeFilled = FALSE
    /\ needsAuth = FALSE
    /\ btnPc = "idle"
    /\ loadPc = "idle"

\* No unread scan loop.
ScanIdle ==
    /\ unreadScanRunning = FALSE
    /\ unreadScanEnabled = TRUE
    /\ scanPc = [g \in Scanners |-> "off"]
    /\ scanDones = [g \in Scanners |-> 0]
    /\ unreadLastChanges = 0

FallbackIdle ==
    /\ host = NoHost
    /\ nodeModules = FALSE
    /\ installRuns = 0
    /\ fbPc = "off"
    /\ FallbackLocalsIdle
    /\ UiIdle

(***************************************************************************)
(* Initial states: start() has built the first client; no call is running. *)
(***************************************************************************)
PollIdle ==
    /\ clock = 0
    /\ pollPc = "off"
    /\ device = [ExpiresIn |-> 0, Interval |-> 0]
    /\ deadline = 0
    /\ interval = 0
    /\ payload = NoPayload
    /\ pollResult = "none"
    /\ lastSleep = 0
    /\ slowDowns = 0
    /\ sleptSince = FALSE

CoordInit(G) ==
    /\ authRefreshMu = NoOne
    /\ teamsClient = StartClient
    /\ clientCount = 0
    /\ tokenGen = 0
    /\ envDisableDeviceCode \in BOOLEAN
    /\ pc = [g \in G |-> "idle"]
    /\ path = [g \in G |-> "none"]
    /\ itemsLeft = [g \in G |-> 0]
    /\ attempt = [g \in G |-> 0]
    /\ handle = [g \in G |-> NilClient]
    /\ deviceErr = [g \in G |-> "unset"]
    /\ interactive = [g \in G |-> FALSE]
    /\ refreshErr = [g \in G |-> "none"]
    /\ newClient = [g \in G |-> NilClient]
    /\ clientAtLock = [g \in G |-> NilClient]
    /\ genAtLock = [g \in G |-> -1]
    /\ arrivedBusy = [g \in G |-> FALSE]
    /\ didAuthWork = [g \in G |-> FALSE]
    /\ probed = [g \in G |-> FALSE]
    /\ lastRefreshed = 0
    /\ lastIssued = "none"

\* The steps of refreshAuthFromTeamsToken.
RefreshStep(g) ==
    \/ RefreshLock(g)
    \/ \E res \in {"disabled", "failed", "nil"} : RefreshDeviceCode(g, res)
    \/ \E ok \in BOOLEAN : RefreshNewClient(g, ok)
    \/ \E found \in BOOLEAN : RefreshFindDir(g, found)
    \/ \E res \in BuildResults : RefreshBuildCommand(g, res)
    \/ \E res \in WrapResults : RefreshWrap(g, res)
    \/ \E ok \in BOOLEAN : RefreshRun(g, ok)
    \/ RefreshUnlock(g)

(***************************************************************************)
(* Spec: two goroutines run the request paths and the auth button, with    *)
(* the device-code path enabled (the default).                             *)
(***************************************************************************)
Init ==
    /\ CoordInit(Workers)
    /\ envDisableDeviceCode = FALSE
    /\ PollIdle
    /\ DeviceIdle
    /\ FallbackIdle
    /\ WrapperIdle
    /\ PagesIdle
    /\ ScanIdle

Next ==
    /\ \E g \in Workers :
        \/ \E p \in Paths : \E n \in ItemCounts(p) : CallPath(g, p, n)
        \/ \E res \in Results : ReadClient(g, res)
        \/ \E res \in Results : IssueRequest(g, res)
        \/ AfterRefreshReturn(g)
        \/ RefreshStep(g)
    /\ UNCHANGED <<deviceVars, fallbackVars, appVars>>

Spec == Init /\ [][Next]_vars

(***************************************************************************)
(* SpecCallers: NumCallers goroutines call refreshAuthFromTeamsToken       *)
(* directly, as the handler of the "Run auth refresh" button does.         *)
(***************************************************************************)
InitCallers ==
    /\ CoordInit(Callers)
    /\ PollIdle
    /\ DeviceIdle
    /\ FallbackIdle
    /\ WrapperIdle
    /\ PagesIdle
    /\ ScanIdle

NextCallers ==
    /\ \E g \in Callers :
        \/ CallPath(g, "authButton", 1)
        \/ AfterRefreshReturn(g)
        \/ RefreshStep(g)
    /\ UNCHANGED <<deviceVars, fallbackVars, appVars>>

SpecCallers == InitCallers /\ [][NextCallers]_vars

(***************************************************************************)
(* The device-code poll loop.  Time is counted in seconds from the moment  *)
(* refreshAuthFromDeviceCode created its context.                          *)
(***************************************************************************)
\* context.WithTimeout(context.Background(), 10*time.Minute), in seconds.
CtxTimeout == 600

\* The error codes a token response can carry ("" is no error).
ErrorCodes ==
    {"", "authorization_pending", "slow_down", "authorization_declined",
     "expired_token", "invalid_grant"}

\* The decoded token responses: the error code, and whether access_token
\* is non-empty (tried together with no error and with a retryable error).
Payloads ==
    {p \in [Error : ErrorCodes, AccessToken : BOOLEAN] :
        p.AccessToken => p.Error \in {"", "authorization_pending"}}

\* requestDeviceCode: a provider interval of zero or less becomes 5.
DefaultInterval == 5

NormalizeIntervalKeep(i) ==
    i

NormalizeInterval(i) ==
    IF i <= 0 THEN 5 ELSE i

\* The device-code responses requestDeviceCode hands to the poll loop:
\* short-lived codes with every interval, and codes that live about as long
\* as, or longer than, the context, with a 7 second interval.
RawIntervals == {-1, 0, 1, 7}
Devices ==
    {[ExpiresIn |-> e, Interval |-> NormalizeInterval(i)] :
        e \in 0..MaxShortExpiry, i \in RawIntervals}
    \cup
    {[ExpiresIn |-> e, Interval |-> NormalizeInterval(7)] :
        e \in {CtxTimeout - 1, CtxTimeout + 300}}

\* pollDeviceCode: interval := device.Interval seconds, at least one second.
IntervalFloor(i) ==
    IF i < 1 THEN 1 ELSE i

\* time.Now().After(deadline)
ExpiredNever(now, dl) ==
    FALSE

Expired(now, dl) ==
    now > dl

\* ctx.Err() != nil
CtxDone(now) ==
    now >= CtxTimeout

\* The branch pollDeviceCode takes on a decoded token response.
ClassifyEmptyAsPending(p) ==
    IF p.Error = "" /\ p.AccessToken THEN "token"
    ELSE CASE p.Error \in {"authorization_pending", ""} -> "pending"
           [] p.Error = "slow_down" -> "slow_down"
           [] p.Error = "authorization_declined" -> "declined"
           [] p.Error = "expired_token" -> "expired_token"
           [] OTHER -> "other"

ClassifyPendingAsFatal(p) ==
    IF p.Error = "" /\ p.AccessToken THEN "token"
    ELSE CASE p.Error = "slow_down" -> "slow_down"
           [] p.Error = "authorization_declined" -> "declined"
           [] p.Error = "expired_token" -> "expired_token"
           [] p.Error = "" -> "malformed"
           [] OTHER -> "other"

Classify(p) ==
    IF p.Error = "" /\ p.AccessToken THEN "token"
    ELSE CASE p.Error = "authorization_pending" -> "pending"
           [] p.Error = "slow_down" -> "slow_down"
           [] p.Error = "authorization_declined" -> "declined"
           [] p.Error = "expired_token" -> "expired_token"
           [] p.Error = "" -> "malformed"
           [] OTHER -> "other"

\* The poll interval after a response of the given class.
NextIntervalNotSticky(class, i) ==
    i

NextInterval(class, i) ==
    IF class = "slow_down" THEN i + 1 ELSE i

\* The argument of time.Sleep after a response of the given class; i is the
\* interval before the response.
SleepFor(class, i) ==
    IF class = "slow_down" THEN i + 1 ELSE i

\* Entry of pollDeviceCode: deadline and interval are computed.
PollStart ==
    /\ pollPc = "start"
    /\ deadline' = clock + device.ExpiresIn
    /\ interval' = IntervalFloor(device.Interval)
    /\ pollPc' = "top"
    /\ UNCHANGED <<clock, device, payload, pollResult, lastSleep, slowDowns,
                   sleptSince, coordVars>>

\* time.Now().After(deadline) when now and the deadline fall in the same
\* second: the deadline was computed from an earlier reading of the clock,
\* and late says that the fraction of a second read now is the greater one.
ExpiredWithinSecond(now, dl, late) ==
    now = dl /\ late

\* Top of the loop: the expiry check, then the context check.
PollCheck(late) ==
    /\ pollPc = "top"
    /\ IF Expired(clock, deadline)
          \/ ExpiredWithinSecond(clock, deadline, late)
       THEN /\ pollPc' = "done"
            /\ pollResult' = "expired"
       ELSE IF CtxDone(clock)
       THEN /\ pollPc' = "done"
            /\ pollResult' = "ctx"
       ELSE /\ pollPc' = "send"
            /\ UNCHANGED pollResult
    /\ UNCHANGED <<clock, device, deadline, interval, payload, lastSleep,
                   slowDowns, sleptSince, coordVars>>

\* httpPostForm and the decoding of the body.  The round trip takes lat
\* seconds; it is cut short with the context's error when the context ends
\* first.  Otherwise it fails ("transport"), yields an undecodable body
\* ("parse"), or yields the payload resp.
PollRequest(lat, kind, resp) ==
    /\ pollPc = "send"
    /\ lat \in 0..MaxLatency
    /\ kind \in {"transport", "parse", "response"}
    /\ resp \in Payloads
    /\ kind # "response" => resp = [Error |-> "", AccessToken |-> FALSE]
    /\ resp.Error = "slow_down" => slowDowns < MaxSlowDowns
    /\ IF CtxDone(clock + lat)
       THEN /\ clock' = CtxTimeout
            /\ pollPc' = "done"
            /\ pollResult' = "ctx"
            /\ payload' = NoPayload
       ELSE /\ clock' = clock + lat
            /\ IF kind = "response"
               THEN /\ pollPc' = "dispatch"
                    /\ payload' = resp
                    /\ UNCHANGED pollResult
               ELSE /\ pollPc' = "done"
                    /\ payload' = NoPayload
                    /\ pollResult' = kind
    /\ sleptSince' = FALSE
    /\ UNCHANGED <<device, deadline, interval, lastSleep, slowDowns,
                   coordVars>>

\* The branch on the payload: return, or sleep and go round again.
PollDispatch ==
    /\ pollPc = "dispatch"
    /\ LET class == Classify(payload)
       IN  IF class \in {"pending", "slow_down"}
           THEN /\ interval' = NextInterval(class, interval)
                /\ lastSleep' = SleepFor(class, interval)
                /\ clock' = clock + SleepFor(class, interval)
                /\ slowDowns' = IF class = "slow_down" THEN slowDowns + 1
                                ELSE slowDowns
                /\ sleptSince' = TRUE
                /\ pollPc' = "top"
                /\ UNCHANGED pollResult
           ELSE /\ pollPc' = "done"
                /\ pollResult' = class
                /\ UNCHANGED <<clock, interval, lastSleep, slowDowns,
                               sleptSince>>
    /\ UNCHANGED <<device, deadline, payload, coordVars>>

(***************************************************************************)
(* SpecPoll: one session of pollDeviceCode, entered after requestDeviceCode*)
(* took up to MaxLatency seconds to return an accepted response.           *)
(***************************************************************************)
InitPoll ==
    /\ CoordInit(Workers)
    /\ envDisableDeviceCode = FALSE
    /\ clock \in 0..MaxLatency
    /\ pollPc = "start"
    /\ device \in Devices
    /\ deadline = 0
    /\ interval = 0
    /\ payload = NoPayload
    /\ pollResult = "none"
    /\ lastSleep = 0
    /\ slowDowns = 0
    /\ sleptSince = FALSE
    /\ DeviceIdle
    /\ FallbackIdle
    /\ WrapperIdle
    /\ PagesIdle
    /\ ScanIdle

NextPoll ==
    /\ \/ PollStart
       \/ \E late \in BOOLEAN : PollCheck(late)
       \/ \E lat \in 0..MaxLatency,
             kind \in {"transport", "parse", "response"},
             resp \in Payloads : PollRequest(lat, kind, resp)
       \/ PollDispatch
    /\ UNCHANGED <<deviceVars, fallbackVars, appVars>>

SpecPoll == InitPoll /\ [][NextPoll]_vars

\* The poll loop runs on its own goroutine and is never starved of steps.
FairSpecPoll == SpecPoll /\ WF_vars(NextPoll)

(***************************************************************************)
(* The device-code path, refreshAuthFromDeviceCode, step by step, and the  *)
(* token store it writes.                                                  *)
(***************************************************************************)
\* strings.TrimSpace on a sequence of characters.
RECURSIVE TrimLeft(_)
TrimLeft(s) ==
    IF s # <<>> /\ Head(s) = " " THEN TrimLeft(Tail(s)) ELSE s

RECURSIVE TrimRight(_)
TrimRight(s) ==
    IF s # <<>> /\ s[Len(s)] = " "
    THEN TrimRight(SubSeq(s, 1, Len(s) - 1))
    ELSE s

TrimSpace(s) ==
    TrimRight(TrimLeft(s))

\* The token responses pollDeviceCode can return: access_token is never
\* empty (it may be blank), id_token and refresh_token may be empty.
TokenResponses ==
    [IDToken : {<<>>, <<" ">>, <<"i", "d">>, <<"i", "d", " ">>},
     AccessToken : {<<" ">>, <<"a", "t">>},
     RefreshToken : {<<>>, <<"r", "t">>}]

\* The access token the provider mints for a resource.
ResourceToken(label) ==
    IF label = "skype" THEN <<"s", "k">> ELSE <<"c", "s">>

\* A token file left by an earlier run of the program.
OldFile == [exists |-> TRUE, data |-> <<"o", "l", "d">>]

\* teamsToken: the trimmed id_token, or else the trimmed access_token.
PrimaryCredentialAccessFirst(resp) ==
    LET at == TrimSpace(resp.AccessToken)
    IN  IF at = <<>> THEN TrimSpace(resp.IDToken) ELSE at

PrimaryCredential(resp) ==
    LET id == TrimSpace(resp.IDToken)
    IN  IF id = <<>> THEN TrimSpace(resp.AccessToken) ELSE id

\* Where the path goes once teamsToken is computed.
AfterPollRefreshFirst(tok) ==
    IF tok = <<>> THEN "done" ELSE "skypeReq"

AfterPoll(tok) ==
    IF tok = <<>> THEN "done" ELSE "wOpen"

\* Where the path goes once the token file of the given kind is written;
\* rt is tokenResp.RefreshToken.
AfterWriteSkipChatSvc(kind, rt) ==
    CASE kind = "teams" -> IF rt = <<>> THEN "done" ELSE "skypeReq"
      [] OTHER -> "done"

AfterWrite(kind, rt) ==
    CASE kind = "teams" -> IF rt = <<>> THEN "done" ELSE "skypeReq"
      [] kind = "skype" -> "chatReq"
      [] OTHER -> "done"

\* What the path returns when it ends after writing the given file.
ResultAfterWrite(kind) ==
    IF kind = "teams" THEN "no_refresh_token" ELSE "nil"

\* if disableDeviceCode() { return error }
DevCheckDisabled ==
    /\ devPc = "start"
    /\ IF envDisableDeviceCode
       THEN /\ devPc' = "done"
            /\ devResult' = "disabled"
       ELSE /\ devPc' = "request"
            /\ UNCHANGED devResult
    /\ observed' = NoRead
    /\ UNCHANGED <<tokenResp, files, wr, grants, written, coordVars, pollVars,
                   fallbackVars>>

\* requestDeviceCode: the round trip fails, the body does not decode, the
\* provider reports an error, device_code is empty, or a code is returned.
RequestCodeResults ==
    {"ok", "code_transport", "code_parse", "code_error",
     "missing_device_code"}

DevRequestCode(res) ==
    /\ devPc = "request"
    /\ res \in RequestCodeResults
    /\ IF res = "ok"
       THEN /\ devPc' = "render"
            /\ UNCHANGED devResult
       ELSE /\ devPc' = "done"
            /\ devResult' = res
    /\ observed' = NoRead
    /\ UNCHANGED <<tokenResp, files, wr, grants, written, coordVars, pollVars,
                   fallbackVars>>

\* renderDeviceCodeMessage: queues the verification message for the UI,
\* unless the response carries no message and no verification URI.
DevRender(hasMsg) ==
    /\ devPc = "render"
    /\ devPc' = "poll"
    /\ statusQueued' = IF hasMsg THEN "verification" ELSE statusQueued
    /\ observed' = NoRead
    /\ UNCHANGED <<tokenResp, devResult, files, wr, grants, written,
                   coordVars, pollVars, fallbackState, uiSuspended,
                   statusText>>

\* pollDeviceCode as a whole (SpecPoll has its steps), and the choice of
\* teamsToken from the response.
PollFailures ==
    {"expired", "ctx", "transport", "parse", "declined", "expired_token",
     "malformed", "other"}

DevPoll(res, resp) ==
    /\ devPc = "poll"
    /\ res \in PollFailures \cup {"token"}
    /\ resp \in TokenResponses
    /\ IF res = "token"
       THEN LET tok == PrimaryCredential(resp)
            IN  /\ tokenResp' = resp
                /\ devPc' = AfterPoll(tok)
                /\ IF tok = <<>>
                   THEN /\ devResult' = "no_token"
                        /\ UNCHANGED wr
                   ELSE /\ wr' = [kind |-> "teams", data |-> tok,
                                  prev |-> files["teams"],
                                  open |-> FALSE]
                        /\ UNCHANGED devResult
       ELSE /\ devPc' = "done"
            /\ devResult' = res
            /\ UNCHANGED <<tokenResp, wr>>
    /\ observed' = NoRead
    /\ UNCHANGED <<files, grants, written, coordVars, pollVars,
                   fallbackVars>>

\* writeTokenFile up to the open: os.UserHomeDir, os.MkdirAll, and the
\* open of os.WriteFile (O_WRONLY|O_CREATE|O_TRUNC), which empties the file.
WriteOpen(ok) ==
    /\ devPc = "wOpen"
    /\ IF ok
       THEN /\ files' = [files EXCEPT
                            ![wr.kind] = [exists |-> TRUE, data |-> <<>>]]
            /\ wr' = [wr EXCEPT !.open = TRUE]
            /\ devPc' = "wData"
            /\ UNCHANGED devResult
       ELSE /\ devPc' = "done"
            /\ devResult' = "write_failed"
            /\ wr' = NoWrite
            /\ UNCHANGED files
    /\ observed' = NoRead
    /\ UNCHANGED <<tokenResp, grants, written, coordVars, pollVars,
                   fallbackVars>>

\* The write of os.WriteFile: the next n bytes reach the file, or the
\* write fails.  When the last byte is in, the file is closed and the
\* path goes on.
WriteData(ok, n) ==
    /\ devPc = "wData"
    /\ LET have == Len(files[wr.kind].data)
           now == have + n
       IN  /\ n \in 1..(Len(wr.data) - have)
           /\ IF ok
              THEN /\ files' = [files EXCEPT
                                   ![wr.kind].data = SubSeq(wr.data, 1, now)]
                   /\ IF now = Len(wr.data)
                      THEN LET to == AfterWrite(wr.kind,
                                                tokenResp.RefreshToken)
                           IN  /\ written' = Append(written, wr.kind)
                               /\ devPc' = to
                               /\ devResult' =
                                      IF to = "done"
                                      THEN ResultAfterWrite(wr.kind)
                                      ELSE devResult
                               /\ wr' = NoWrite
                      ELSE UNCHANGED <<written, devPc, devResult, wr>>
              ELSE /\ n = 1
                   /\ devPc' = "done"
                   /\ devResult' = "write_failed"
                   /\ wr' = NoWrite
                   /\ UNCHANGED <<files, written>>
    /\ observed' = NoRead
    /\ UNCHANGED <<tokenResp, grants, coordVars, pollVars, fallbackVars>>

\* refreshResourceToken up to its writeTokenFile call: the refresh_token
\* grant is sent; the round trip fails, the body does not decode, the
\* provider reports an error, access_token is empty, or a token is minted.
ResourceResults ==
    {"ok", "refresh_transport", "refresh_parse", "refresh_error",
     "missing_access_token"}

DevRefreshResource(res) ==
    /\ devPc \in {"skypeReq", "chatReq"}
    /\ res \in ResourceResults
    /\ LET label == IF devPc = "skypeReq" THEN "skype" ELSE "chatsvcagg"
       IN  /\ grants' = Append(grants,
                               [label |-> label,
                                refreshToken |-> tokenResp.RefreshToken])
           /\ IF res = "ok"
              THEN /\ wr' = [kind |-> label, data |-> ResourceToken(label),
                             prev |-> files[label], open |-> FALSE]
                   /\ devPc' = "wOpen"
                   /\ UNCHANGED devResult
              ELSE /\ devPc' = "done"
                   /\ devResult' = res
                   /\ UNCHANGED wr
    /\ observed' = NoRead
    /\ UNCHANGED <<tokenResp, files, written, coordVars, pollVars,
                   fallbackVars>>

\* refreshAuthFromDeviceCode has returned; a later refresh calls it again.
DevAgain ==
    /\ devPc = "done"
    /\ devPc' = "start"
    /\ tokenResp' = NoTokenResp
    /\ devResult' = "none"
    /\ wr' = NoWrite
    /\ grants' = <<>>
    /\ written' = <<>>
    /\ observed' = NoRead
    /\ UNCHANGED <<files, coordVars, pollVars, fallbackVars>>

\* Another process (a second instance of the program, or the token helper)
\* opens and reads one of the token files.
ExternalRead(k) ==
    /\ k \in TokenKindSet
    /\ observed' = [kind |-> k, file |-> files[k]]
    /\ UNCHANGED <<devPc, tokenResp, devResult, files, wr, grants, written,
                   coordVars, pollVars, fallbackVars>>

\* The tview event loop takes the queued update (tv.SetText) and redraws;
\* nothing is drawn while the application is suspended.  A later queued
\* text replaces an earlier one that was not drawn yet.
UiDraw ==
    /\ statusQueued # "none"
    /\ ~uiSuspended
    /\ statusText' = statusQueued
    /\ statusQueued' = "none"
    /\ UNCHANGED <<uiSuspended, coordVars, pollVars, deviceVars,
                   fallbackState>>

(***************************************************************************)
(* SpecDevice: refreshAuthFromDeviceCode called again and again, with      *)
(* token files left by earlier runs, and an external reader of the files.  *)
(***************************************************************************)
InitDevice ==
    /\ CoordInit(Workers)
    /\ PollIdle
    /\ FallbackIdle
    /\ devPc = "start"
    /\ tokenResp = NoTokenResp
    /\ devResult = "none"
    /\ files \in [TokenKindSet -> {NoFile, OldFile}]
    /\ wr = NoWrite
    /\ grants = <<>>
    /\ written = <<>>
    /\ observed = NoRead
    /\ WrapperIdle
    /\ PagesIdle
    /\ ScanIdle

NextDevice ==
    /\ \/ DevCheckDisabled
       \/ \E res \in RequestCodeResults : DevRequestCode(res)
       \/ \E hasMsg \in BOOLEAN : DevRender(hasMsg)
       \/ \E res \in PollFailures \cup {"token"}, resp \in TokenResponses :
             DevPoll(res, resp)
       \/ \E ok \in BOOLEAN : WriteOpen(ok)
       \/ \E ok \in BOOLEAN, n \in 1..Len(wr.data) : WriteData(ok, n)
       \/ \E res \in ResourceResults : DevRefreshResource(res)
       \/ DevAgain
       \/ \E k \in TokenKindSet : ExternalRead(k)
       \/ UiDraw
    /\ UNCHANGED appVars

SpecDevice == InitDevice /\ [][NextDevice]_vars

(***************************************************************************)
(* The fallback runner on a host.  The host is what the runner probes: the *)
(* directories under the search roots, the files of the helper directory,  *)
(* the commands on PATH and the environment flags.                         *)
(***************************************************************************)
\* Times the dependency install fails in one process lifetime.
MaxInstallFailures == 1

\* The goroutine that calls the refresh in SpecFallback.
FbCaller == 1

\* candidates of findTeamsTokenDir, in the order they are tried.
TeamsTokenCandidates == <<"teams-token", "teams-token-cli">>

\* The first of the candidates that is a directory of a search root whose
\* directories are dirs, or "" when it has none.
RECURSIVE FirstCandidate(_, _)
FirstCandidate(dirs, cands) ==
    IF cands = <<>> THEN ""
    ELSE IF Head(cands) \in dirs THEN Head(cands)
    ELSE FirstCandidate(dirs, Tail(cands))

\* findTeamsTokenDir: root by root, candidate by candidate; "" is the error.
RECURSIVE FindTeamsTokenDir(_)
FindTeamsTokenDir(roots) ==
    IF roots = <<>> THEN ""
    ELSE IF FirstCandidate(Head(roots), TeamsTokenCandidates) # ""
    THEN FirstCandidate(Head(roots), TeamsTokenCandidates)
    ELSE FindTeamsTokenDir(Tail(roots))

\* findTermEverythingDir() != ""
FindTermEverythingDir(roots) ==
    \E i \in 1..Len(roots) : "term.everything" \in roots[i]

\* buildTeamsTokenCommand without the install: the runner, the package
\* manager that installs the dependencies, the tool the command line builds
\* with, or the error and what its text says was checked.
BuildTeamsTokenCommand(h) ==
    IF h.binary = "exec"
    THEN [runner |-> "binary", installer |-> "none", builder |-> "none",
          err |-> "nil", checked |-> <<>>]
    ELSE IF h.goMod
    THEN [runner |-> "go", installer |-> "none", builder |-> "none",
          err |-> "nil", checked |-> <<>>]
    ELSE IF h.packageJson
    THEN IF h.yarnLock /\ h.yarn
         THEN [runner |-> "node", installer |-> "yarn", builder |-> "yarn",
               err |-> "nil", checked |-> <<>>]
         ELSE IF h.npm
         THEN [runner |-> "node", installer |-> "npm", builder |-> "yarn",
               err |-> "nil", checked |-> <<>>]
         ELSE [runner |-> "none", installer |-> "none", builder |-> "none",
               err |-> "noPackageManager", checked |-> <<"yarn", "npm">>]
    ELSE [runner |-> "none", installer |-> "none", builder |-> "none",
          err |-> "noRunner",
          checked |-> <<"binary", "go.mod", "package.json">>]

\* if !fileExists(node_modules): the install command runs.
InstallNeededAlways(cmd, nm) ==
    cmd.runner = "node"

InstallNeeded(cmd, nm) ==
    cmd.runner = "node" /\ ~nm

\* decideTermEverything: use term.everything, and through what.
DecideTermEverythingIgnoreFlag(h) ==
    IF ~FindTermEverythingDir(h.roots)
    THEN [use |-> FALSE, err |-> FALSE, via |-> "none"]
    ELSE IF h.termBinary
    THEN [use |-> TRUE, err |-> FALSE, via |-> "binary"]
    ELSE IF h.go
    THEN [use |-> TRUE, err |-> FALSE, via |-> "gorun"]
    ELSE [use |-> FALSE, err |-> TRUE, via |-> "none"]

DecideTermEverything(h) ==
    IF h.disableTermEverything
    THEN [use |-> FALSE, err |-> FALSE, via |-> "none"]
    ELSE IF ~FindTermEverythingDir(h.roots)
    THEN [use |-> FALSE, err |-> FALSE, via |-> "none"]
    ELSE IF h.termBinary
    THEN [use |-> TRUE, err |-> FALSE, via |-> "binary"]
    ELSE IF h.go
    THEN [use |-> TRUE, err |-> FALSE, via |-> "gorun"]
    ELSE [use |-> FALSE, err |-> TRUE, via |-> "none"]

\* The errors wrapWithTermEverything can return.
WrapErrors == {"termUnavailable", "noXwayland", "noMatchbox", "noFreeDisplay"}

\* wrapWithTermEverything: "plain" (not wrapped), wrapped through the
\* term.everything binary or through go run, or an error.  Without the
\* Wayland-native flag the command is first wrapped by wrapWithXwayland,
\* which fails on the first prerequisite that is missing.
WrapWithTermEverything(h) ==
    LET decision == DecideTermEverything(h)
    IN  IF decision.err THEN "termUnavailable"
        ELSE IF ~decision.use THEN "plain"
        ELSE IF ~h.ozone /\ h.xDisplay # "ok" THEN h.xDisplay
        ELSE decision.via

\* interactive: the helper runs under app.Suspend with the terminal attached.
InteractiveWhenPlain(w) ==
    w = "plain"

Interactive(w) ==
    w \in {"binary", "gorun"}

\* The results refreshAuthFromDeviceCode can have, given disableDeviceCode().
DeviceCodeOutcomesIgnoreFlag(disabled) ==
    {"failed", "nil"}

DeviceCodeOutcomes(disabled) ==
    IF disabled THEN {"disabled"} ELSE {"failed", "nil"}

\* The handle teams_api.New() builds from the refreshed token files
\* (successive handles are not told apart here).
RebuiltClient == [id |-> 1, gen |-> 1]

\* The search roots that are tried: no helper; a helper in the first root;
\* a helper in each root (the first root wins over the order of the
\* candidates); both candidates in one root; term.everything without helper.
RootLayouts ==
    {<<{}, {}>>,
     <<{"teams-token"}, {}>>,
     <<{"teams-token-cli", "term.everything"}, {"teams-token"}>>,
     <<{"term.everything"}, {"teams-token", "teams-token-cli"}>>,
     <<{}, {"term.everything"}>>}

\* The hosts: files exist only inside directories that exist.
Hosts ==
    {h \in [roots : RootLayouts,
            binary : {"absent", "dir", "noexec", "exec"},
            goMod : BOOLEAN, packageJson : BOOLEAN, yarnLock : BOOLEAN,
            yarn : BOOLEAN, npm : BOOLEAN, termBinary : BOOLEAN,
            go : BOOLEAN, disableTermEverything : BOOLEAN, ozone : BOOLEAN,
            xDisplay : {"ok", "noXwayland", "noMatchbox", "noFreeDisplay"}] :
        /\ FindTeamsTokenDir(h.roots) = "" =>
               /\ h.binary = "absent"
               /\ ~h.goMod /\ ~h.packageJson /\ ~h.yarnLock
        /\ h.termBinary => FindTermEverythingDir(h.roots)}

\* The variables of the coordinator that this specification leaves alone.
fbCoordRest ==
    <<clientCount, tokenGen, envDisableDeviceCode, pc, pathVars,
      refreshLocals, refreshErr, arrivedBusy, lastRefreshed, lastIssued>>

\* The call of refreshAuthFromTeamsToken and s.authRefreshMu.Lock().
FbCall ==
    /\ fbPc = "idle"
    /\ MuLock(FbCaller)
    /\ fbPc' = "rDevice"
    /\ UNCHANGED <<host, nodeModules, fbDeviceErr, fbCmd, fbWrap, fbErr,
                   installRuns, contacted, launched, tried, teamsClient,
                   fbCoordRest, pollVars, deviceVars, uiVars>>

\* s.refreshAuthFromDeviceCode() as a whole (SpecDevice has its steps): it
\* returns before any request when the flag disables it.
FbDeviceCode(res) ==
    /\ fbPc = "rDevice"
    /\ res \in DeviceCodeOutcomes(envDisableDeviceCode)
    /\ fbDeviceErr' = res
    /\ contacted' = (res # "disabled")
    /\ fbPc' = AfterDeviceCode(res)
    /\ UNCHANGED <<host, nodeModules, fbCmd, fbWrap, fbErr, installRuns,
                   launched, tried, authRefreshMu, teamsClient, fbCoordRest,
                   pollVars, deviceVars, uiVars>>

\* findTeamsTokenDir() and the return of its error.
FbFindDir ==
    /\ fbPc = "rFindDir"
    /\ IF FindTeamsTokenDir(host.roots) = ""
       THEN /\ fbErr' = [kind |-> "noDir", device |-> FALSE,
                        checked |-> TeamsTokenCandidates]
            /\ fbPc' = "rUnlock"
       ELSE /\ fbPc' = "rBuild"
            /\ UNCHANGED fbErr
    /\ UNCHANGED <<host, nodeModules, fbDeviceErr, fbCmd, fbWrap,
                   installRuns, contacted, launched, tried, authRefreshMu,
                   teamsClient, fbCoordRest, pollVars, deviceVars, uiVars>>

\* buildTeamsTokenCommand(): the choice of the runner and, for the Node
\* runner without node_modules, the install command, which succeeds or
\* fails; a failed install may leave a node_modules directory behind.
FbBuild(installOk, leftover) ==
    /\ fbPc = "rBuild"
    /\ LET cmd == BuildTeamsTokenCommand(host)
       IN  /\ fbCmd' = cmd
           /\ tried' = IF cmd.runner = "none" THEN tried
                       ELSE tried \cup {cmd.runner}
           /\ IF cmd.err # "nil"
              THEN /\ installOk /\ ~leftover
                   /\ fbErr' = [kind |-> cmd.err, device |-> FALSE,
                                checked |-> cmd.checked]
                   /\ fbPc' = "rUnlock"
                   /\ UNCHANGED <<nodeModules, installRuns, launched>>
              ELSE IF InstallNeeded(cmd, nodeModules)
              THEN /\ installOk \/ installRuns < MaxInstallFailures
                   /\ installOk => ~leftover
                   /\ installRuns' = installRuns + 1
                   /\ launched' = launched \cup {"install"}
                   /\ IF installOk
                      THEN /\ nodeModules' = TRUE
                           /\ fbPc' = "rWrap"
                           /\ UNCHANGED fbErr
                      ELSE /\ nodeModules' = (nodeModules \/ leftover)
                           /\ fbErr' = [kind |-> "installFailed",
                                        device |-> FALSE, checked |-> <<>>]
                           /\ fbPc' = "rUnlock"
              ELSE /\ installOk /\ ~leftover
                   /\ fbPc' = "rWrap"
                   /\ UNCHANGED <<nodeModules, installRuns, launched, fbErr>>
    /\ UNCHANGED <<host, fbDeviceErr, fbWrap, contacted, authRefreshMu,
                   teamsClient, fbCoordRest, pollVars, deviceVars, uiVars>>

\* wrapWithTermEverything() and the return of its error.
FbWrap ==
    /\ fbPc = "rWrap"
    /\ LET w == WrapWithTermEverything(host)
       IN  /\ fbWrap' = w
           /\ IF w \in WrapErrors
              THEN /\ fbErr' = [kind |-> w, device |-> FALSE,
                               checked |-> <<>>]
                   /\ fbPc' = "rUnlock"
              ELSE /\ fbPc' = "rRun"
                   /\ UNCHANGED fbErr
    /\ UNCHANGED <<host, nodeModules, fbDeviceErr, fbCmd, installRuns,
                   contacted, launched, tried, authRefreshMu, teamsClient,
                   fbCoordRest, pollVars, deviceVars, uiVars>>

\* The helper starts: cmd.Run() inside s.app.Suspend when interactive,
\* which takes the terminal from the UI, else cmd.CombinedOutput().
FbLaunch ==
    /\ fbPc = "rRun"
    /\ fbPc' = "rRunning"
    /\ launched' = launched \cup {"helper"}
    /\ uiSuspended' = Interactive(fbWrap)
    /\ UNCHANGED <<host, nodeModules, fbDeviceErr, fbCmd, fbWrap, fbErr,
                   installRuns, contacted, tried, authRefreshMu, teamsClient,
                   fbCoordRest, pollVars, deviceVars, statusQueued,
                   statusText>>

\* The helper exits; Suspend returns and the UI resumes.
FbHelperExit(ok) ==
    /\ fbPc = "rRunning"
    /\ uiSuspended' = FALSE
    /\ IF ok
       THEN /\ fbPc' = "rNewFb"
            /\ UNCHANGED fbErr
       ELSE /\ fbPc' = "rUnlock"
            /\ fbErr' =
                  [kind |-> "runFailed",
                   device |-> RunError(Interactive(fbWrap), fbDeviceErr)
                                  = "combined",
                   checked |-> <<>>]
    /\ UNCHANGED <<host, nodeModules, fbDeviceErr, fbCmd, fbWrap,
                   installRuns, contacted, launched, tried, authRefreshMu,
                   teamsClient, fbCoordRest, pollVars, deviceVars,
                   statusQueued, statusText>>

\* teams_api.New() and the assignment to s.teamsClient, on either path.
FbNewClient(ok) ==
    /\ fbPc \in {"rNewDev", "rNewFb"}
    /\ teamsClient' = InstallClient(ok, RebuiltClient, teamsClient)
    /\ fbErr' = [kind |-> IF ok THEN "nil" ELSE "reinit", device |-> FALSE,
                 checked |-> <<>>]
    /\ fbPc' = "rUnlock"
    /\ UNCHANGED <<host, nodeModules, fbDeviceErr, fbCmd, fbWrap,
                   installRuns, contacted, launched, tried, authRefreshMu,
                   fbCoordRest, pollVars, deviceVars, uiVars>>

\* The deferred Unlock and the return; the locals of the call die with it.
FbReturn ==
    /\ fbPc = "rUnlock"
    /\ authRefreshMu' = NoOne
    /\ fbPc' = "idle"
    /\ fbDeviceErr' = "unset"
    /\ fbCmd' = NoCmd
    /\ fbWrap' = "unset"
    /\ fbErr' = NoErr
    /\ contacted' = FALSE
    /\ launched' = {}
    /\ tried' = {}
    /\ UNCHANGED <<host, nodeModules, installRuns, teamsClient, fbCoordRest,
                   pollVars, deviceVars, uiVars>>

(***************************************************************************)
(* SpecFallback: refreshAuthFromTeamsToken called again and again by one   *)
(* goroutine on a host that stays as it is, but for node_modules.          *)
(***************************************************************************)
InitFallback ==
    /\ CoordInit(Workers)
    /\ PollIdle
    /\ DeviceIdle
    /\ host \in Hosts
    /\ nodeModules \in BOOLEAN
    /\ nodeModules => host.packageJson
    /\ installRuns = 0
    /\ fbPc = "idle"
    /\ FallbackLocalsIdle
    /\ UiIdle
    /\ WrapperIdle
    /\ PagesIdle
    /\ ScanIdle

NextFallback ==
    /\ \/ FbCall
       \/ \E res \in {"disabled", "failed", "nil"} : FbDeviceCode(res)
       \/ FbFindDir
       \/ \E installOk \in BOOLEAN, leftover \in BOOLEAN :
             FbBuild(installOk, leftover)
       \/ FbWrap
       \/ FbLaunch
       \/ \E ok \in BOOLEAN : FbHelperExit(ok)
       \/ \E ok \in BOOLEAN : FbNewClient(ok)
       \/ FbReturn
    /\ UNCHANGED appVars

SpecFallback == InitFallback /\ [][NextFallback]_vars

(***************************************************************************)
(* The shell script wrapWithXwayland builds around the helper command:     *)
(*   Xwayland :N -retro & xw_pid=$!; trap 'kill $xw_pid $wm_pid' EXIT;     *)
(*   for i in $(seq 1 50); do [ -S sock ] && break; sleep 0.1; done;       *)
(*   [ -S sock ] || { echo ...; exit 1; };                                 *)
(*   matchbox-window-manager -display :N & wm_pid=$!; runCmd               *)
(***************************************************************************)
\* seq 1 50: the iterations of the wait loop.
SocketPolls == 50

\* Where the script goes after the test that follows the loop.
AfterSocketTestAlwaysStart(socket) ==
    "wm"

AfterSocketTest(socket) ==
    IF socket THEN "wm" ELSE "exit"

\* kill $xw_pid $wm_pid: the processes the EXIT trap signals; wm_pid is
\* empty until the window manager has been started.
TrapTargetsOnlyXwayland(procs) ==
    {p \in {"Xwayland"} : procs[p] # "none"}

TrapTargets(procs) ==
    {p \in BackgroundProcs : procs[p] # "none"}

\* The shell exits with the given status: the EXIT trap, if installed,
\* signals its targets, and those still running terminate.
ScriptExit(status) ==
    LET targets == IF xwTrap THEN TrapTargets(xwProc) ELSE {}
    IN  /\ xwPc' = "exited"
        /\ xwStatus' = status
        /\ xwKilled' = targets
        /\ xwProc' = [p \in WrapperProcs |->
                         IF p \in targets /\ xwProc[p] = "running"
                         THEN "killed" ELSE xwProc[p]]

wrapperRest == <<coordVars, pollVars, deviceVars, fallbackVars, pageVars,
                 scanVars>>

\* Xwayland :N -retro & xw_pid=$!
XwSpawnXwayland ==
    /\ xwPc = "spawn"
    /\ xwProc' = [xwProc EXCEPT !["Xwayland"] = "running"]
    /\ xwPc' = "trap"
    /\ UNCHANGED <<xwI, xwSocket, xwTrap, xwStatus, xwSlept, xwSeen,
                   xwKilled, wrapperRest>>

\* trap 'kill $xw_pid $wm_pid' EXIT
XwSetTrap ==
    /\ xwPc = "trap"
    /\ xwTrap' = TRUE
    /\ xwPc' = "loop"
    /\ UNCHANGED <<xwI, xwProc, xwSocket, xwStatus, xwSlept, xwSeen,
                   xwKilled, wrapperRest>>

\* One iteration of the wait loop: [ -S sock ] && break; sleep 0.1
XwLoopIteration ==
    /\ xwPc = "loop"
    /\ xwI < SocketPolls
    /\ xwI' = xwI + 1
    /\ IF xwSocket
       THEN /\ xwPc' = "test"
            /\ UNCHANGED xwSlept
       ELSE /\ xwSlept' = xwSlept + 1
            /\ xwPc' = IF xwI' = SocketPolls THEN "test" ELSE "loop"
    /\ UNCHANGED <<xwProc, xwSocket, xwTrap, xwStatus, xwSeen, xwKilled,
                   wrapperRest>>

\* [ -S sock ] || { echo ...; exit 1; }
XwSocketTest ==
    /\ xwPc = "test"
    /\ xwSeen' = xwSocket
    /\ IF AfterSocketTest(xwSocket) = "wm"
       THEN /\ xwPc' = "wm"
            /\ UNCHANGED <<xwProc, xwStatus, xwKilled>>
       ELSE ScriptExit(1)
    /\ UNCHANGED <<xwI, xwSocket, xwTrap, xwSlept, wrapperRest>>

\* matchbox-window-manager -display :N & wm_pid=$!
XwStartWm ==
    /\ xwPc = "wm"
    /\ xwProc' = [xwProc EXCEPT !["wm"] = "running"]
    /\ xwPc' = "run"
    /\ UNCHANGED <<xwI, xwSocket, xwTrap, xwStatus, xwSlept, xwSeen,
                   xwKilled, wrapperRest>>

\* runCmd, the last command of the script, starts.
XwRunHelper ==
    /\ xwPc = "run"
    /\ xwProc' = [xwProc EXCEPT !["helper"] = "running"]
    /\ xwPc' = "wait"
    /\ UNCHANGED <<xwI, xwSocket, xwTrap, xwStatus, xwSlept, xwSeen,
                   xwKilled, wrapperRest>>

\* The helper exits; its status is the script's, and the shell exits.
XwHelperExits(status) ==
    /\ xwPc = "wait"
    /\ status \in {0, 1}
    /\ xwPc' = "reap"
    /\ xwStatus' = status
    /\ xwProc' = [xwProc EXCEPT !["helper"] = "exited"]
    /\ UNCHANGED <<xwI, xwSocket, xwTrap, xwSlept, xwSeen, xwKilled,
                   wrapperRest>>

XwEndOfScript ==
    /\ xwPc = "reap"
    /\ ScriptExit(xwStatus)
    /\ UNCHANGED <<xwI, xwSocket, xwTrap, xwSlept, xwSeen, wrapperRest>>

\* Xwayland, once running, creates its socket file.
XwSocketAppears ==
    /\ xwProc["Xwayland"] = "running"
    /\ ~xwSocket
    /\ xwSocket' = TRUE
    /\ UNCHANGED <<xwPc, xwI, xwProc, xwTrap, xwStatus, xwSlept, xwSeen,
                   xwKilled, wrapperRest>>

\* Xwayland or the window manager dies by itself while the script runs;
\* an X server that dies may take its socket file with it.
XwProcDies(p, unlink) ==
    /\ p \in BackgroundProcs
    /\ xwPc # "exited"
    /\ xwProc[p] = "running"
    /\ xwProc' = [xwProc EXCEPT ![p] = "exited"]
    /\ xwSocket' = IF p = "Xwayland" /\ unlink THEN FALSE ELSE xwSocket
    /\ p = "wm" => ~unlink
    /\ UNCHANGED <<xwPc, xwI, xwTrap, xwStatus, xwSlept, xwSeen, xwKilled,
                   wrapperRest>>

(***************************************************************************)
(* SpecWrapper: one run of the script; findFreeXDisplay chose a display    *)
(* whose socket file did not exist.                                        *)
(***************************************************************************)
InitWrapper ==
    /\ CoordInit(Workers)
    /\ PollIdle
    /\ DeviceIdle
    /\ FallbackIdle
    /\ PagesIdle
    /\ ScanIdle
    /\ xwPc = "spawn"
    /\ xwI = 0
    /\ xwProc = [p \in WrapperProcs |-> "none"]
    /\ xwSocket = FALSE
    /\ xwTrap = FALSE
    /\ xwStatus = -1
    /\ xwSlept = 0
    /\ xwSeen = FALSE
    /\ xwKilled = {}

NextWrapper ==
    \/ XwSpawnXwayland
    \/ XwSetTrap
    \/ XwLoopIteration
    \/ XwSocketTest
    \/ XwStartWm
    \/ XwRunHelper
    \/ \E status \in {0, 1} : XwHelperExits(status)
    \/ XwEndOfScript
    \/ XwSocketAppears
    \/ \E p \in BackgroundProcs, unlink \in BOOLEAN : XwProcDies(p, unlink)

SpecWrapper == InitWrapper /\ [][NextWrapper]_vars

(***************************************************************************)
(* The pages of the UI: start() and fillMainWindow bring up the main page, *)
(* showError switches to the error page, whose "Run auth refresh" button   *)
(* refreshes the credentials on a goroutine of its own.                    *)
(***************************************************************************)
\* isUnauthorizedError(err) || isAuthMissingError(err)
NeedsAuth(res) ==
    res = "authErr"

\* The results of a call that needs the credentials, given the token store.
CallResults(ok) ==
    IF ok THEN {"ok", "otherErr"} ELSE {"authErr", "otherErr"}

pagesRest == <<coordVars, pollVars, deviceVars, fallbackState, uiSuspended,
               wrapperVars, scanVars>>

\* showError(err): the text, the button row, and SwitchToPage(PageError).
ShowError(res) ==
    /\ page' = "error"
    /\ needsAuth' = NeedsAuth(res)
    /\ statusText' = res

\* start(): s.teamsClient, err = teams_api.New()
PgNewClient(res) ==
    /\ startPc = "new"
    /\ res \in CallResults(credsOk)
    /\ IF res = "ok"
       THEN /\ startPc' = "init"
            /\ UNCHANGED <<page, needsAuth, statusText>>
       ELSE /\ startPc' = "failed"
            /\ ShowError(res)
    /\ UNCHANGED <<credsOk, stateInit, treeFilled, btnPc, loadPc,
                   statusQueued, pagesRest>>

\* start(): err = s.TeamsState.init(s.teamsClient); go s.fillMainWindow()
PgStateInit(res) ==
    /\ startPc = "init"
    /\ res \in {"ok", "authErr", "otherErr"}
    /\ IF res = "ok"
       THEN /\ startPc' = "fill"
            /\ stateInit' = TRUE
            /\ UNCHANGED <<page, needsAuth, statusText>>
       ELSE /\ startPc' = "failed"
            /\ ShowError(res)
            /\ UNCHANGED stateInit
    /\ UNCHANGED <<credsOk, treeFilled, btnPc, loadPc, statusQueued,
                   pagesRest>>

\* fillMainWindow up to treeView.SetRoot(rootNode) and the first
\* go s.loadConversationsByIDs(...)
PgFillTree ==
    /\ startPc = "fill"
    /\ treeFilled' = TRUE
    /\ startPc' = "switch"
    /\ UNCHANGED <<page, credsOk, stateInit, needsAuth, btnPc, loadPc,
                   statusQueued, statusText, pagesRest>>

\* fillMainWindow: s.pages.SwitchToPage(PageMain)
PgShowMain ==
    /\ startPc = "switch"
    /\ page' = "main"
    /\ startPc' = "ready"
    /\ UNCHANGED <<credsOk, stateInit, treeFilled, needsAuth, btnPc, loadPc,
                   statusQueued, statusText, pagesRest>>

\* sendMessageAndRefresh, started from the main page: sendMessage failed.
PgSendFails(res) ==
    /\ page = "main"
    /\ res \in {"authErr", "otherErr"}
    /\ ShowError(res)
    /\ UNCHANGED <<startPc, credsOk, stateInit, treeFilled, btnPc, loadPc,
                   statusQueued, pagesRest>>

\* loadConversationsByIDs, started once the tree is set: all ids failed;
\* showError, and time.Sleep(5 * time.Second).
PgLoadFails(res) ==
    /\ treeFilled
    /\ loadPc = "idle"
    /\ res \in {"authErr", "otherErr"}
    /\ ShowError(res)
    /\ loadPc' = "sleep"
    /\ UNCHANGED <<startPc, credsOk, stateInit, treeFilled, btnPc,
                   statusQueued, pagesRest>>

\* loadConversationsByIDs after the sleep: s.pages.SwitchToPage(PageMain)
PgLoadBack ==
    /\ loadPc = "sleep"
    /\ loadPc' = "idle"
    /\ page' = "main"
    /\ UNCHANGED <<startPc, credsOk, stateInit, treeFilled, needsAuth, btnPc,
                   statusQueued, statusText, pagesRest>>

\* The credentials on disk expire, or a helper run by hand renews them.
PgCredsChange ==
    /\ credsOk' = ~credsOk
    /\ startPc \in {"ready", "failed"}
    /\ btnPc = "idle"
    /\ UNCHANGED <<page, startPc, stateInit, treeFilled, needsAuth, btnPc,
                   loadPc, statusQueued, statusText, pagesRest>>

\* The button's handler: go func() { ...; QueueUpdateDraw("Refreshing
\* auth...") ... }; QueueUpdateDraw returns when the update has run.
PgPressButton ==
    /\ page = "error"
    /\ needsAuth
    /\ btnPc = "idle"
    /\ btnPc' = "note"
    /\ statusQueued' = "refreshing"
    /\ UNCHANGED <<page, startPc, credsOk, stateInit, treeFilled, needsAuth,
                   loadPc, statusText, pagesRest>>

\* What the update queued after the refresh does to the page shown.
PageAfterResult(update, current) ==
    IF update = "succeeded" THEN "main" ELSE current

\* The event loop runs the queued update: p.SetText(...), and after a
\* refresh that succeeded s.pages.SwitchToPage(PageMain).
PgUiUpdate ==
    /\ statusQueued # "none"
    /\ ~uiSuspended
    /\ statusText' = statusQueued
    /\ statusQueued' = "none"
    /\ page' = PageAfterResult(statusQueued, page)
    /\ btnPc' = IF btnPc = "note" THEN "refresh" ELSE "idle"
    /\ UNCHANGED <<startPc, credsOk, stateInit, treeFilled, needsAuth,
                   loadPc, pagesRest>>

\* The handler's s.refreshAuthFromTeamsToken() as a whole, and the update
\* it queues with the result.
PgRefresh(ok) ==
    /\ btnPc = "refresh"
    /\ btnPc' = "result"
    /\ credsOk' = (credsOk \/ ok)
    /\ statusQueued' = IF ok THEN "succeeded" ELSE "failed"
    /\ UNCHANGED <<page, startPc, stateInit, treeFilled, needsAuth, loadPc,
                   statusText, pagesRest>>

(***************************************************************************)
(* SpecPages: the process starts with or without usable credentials.       *)
(***************************************************************************)
InitPages ==
    /\ CoordInit(Workers)
    /\ PollIdle
    /\ DeviceIdle
    /\ FallbackIdle
    /\ WrapperIdle
    /\ ScanIdle
    /\ page = "login"
    /\ startPc = "new"
    /\ credsOk \in BOOLEAN
    /\ stateInit = FALSE
    /\ treeFilled = FALSE
    /\ needsAuth = FALSE
    /\ btnPc = "idle"
    /\ loadPc = "idle"

NextPages ==
    \/ \E res \in {"ok", "authErr", "otherErr"} : PgNewClient(res)
    \/ \E res \in {"ok", "authErr", "otherErr"} : PgStateInit(res)
    \/ PgFillTree
    \/ PgShowMain
    \/ \E res \in {"authErr", "otherErr"} : PgSendFails(res)
    \/ \E res \in {"authErr", "otherErr"} : PgLoadFails(res)
    \/ PgLoadBack
    \/ PgCredsChange
    \/ PgPressButton
    \/ PgUiUpdate
    \/ \E ok \in BOOLEAN : PgRefresh(ok)

SpecPages == InitPages /\ [][NextPages]_vars

(***************************************************************************)
(* Unread scans: the ticker loop of startUnreadScanLoop and the scan-now   *)
(* key both call markUnreadScanStart and, if it says so, run               *)
(* refreshUnreadMarkers; markUnreadScanDone ends the scan.                 *)
(***************************************************************************)
\* markUnreadScanStart under unreadScanMu: whether the caller may scan, and
\* the flag afterwards.
MarkUnreadScanStartNoTest(running) ==
    [ok |-> TRUE, running |-> TRUE]

MarkUnreadScanStart(running) ==
    [ok |-> ~running, running |-> TRUE]

\* The results of s.teamsClient.GetConversations(): conversations, a nil
\* result without error, an unauthorized error, another error, or a panic
\* (which the deferred recover of refreshUnreadMarkers catches).
FetchResults == {"ok", "nil", "unauth", "err", "panic"}

\* Where refreshUnreadMarkers goes on a result; retry says that the call is
\* the one after the refresh.  "done" is markUnreadScanDone(0) and return.
AfterFetch(res, retry) ==
    CASE res = "ok" -> "compute"
      [] res = "unauth" /\ ~retry -> "refresh"
      [] OTHER -> "done"

scanRest == <<coordVars, pollVars, deviceVars, fallbackVars, wrapperVars,
              pageVars>>

\* markUnreadScanDone(changes) by goroutine g, which then only returns.
MarkUnreadScanDone(g, changes) ==
    /\ unreadScanRunning' = FALSE
    /\ unreadLastChanges' = changes
    /\ scanDones' = [scanDones EXCEPT ![g] = scanDones[g] + 1]
    /\ scanPc' = [scanPc EXCEPT ![g] = "ret"]

\* A caller of markUnreadScanStart: on true it goes on to
\* refreshUnreadMarkers, on false it starts nothing.
StartScan(g) ==
    LET r == MarkUnreadScanStart(unreadScanRunning)
    IN  /\ unreadScanRunning' = r.running
        /\ scanPc' = IF r.ok THEN [scanPc EXCEPT ![g] = "fetch"] ELSE scanPc
        /\ scanDones' = IF r.ok THEN [scanDones EXCEPT ![g] = 0] ELSE scanDones
        /\ UNCHANGED unreadLastChanges

\* The ticker fires in the loop's goroutine while scans are enabled.
ScTick ==
    /\ scanPc["loop"] = "idle"
    /\ unreadScanEnabled
    /\ StartScan("loop")
    /\ UNCHANGED <<unreadScanEnabled, scanRest>>

\* The scan-now key: markUnreadScanStart, then go s.refreshUnreadMarkers,
\* or the "Scan already running" title.
ScScanNow(g) ==
    /\ g \in Scanners \ {"loop"}
    /\ scanPc[g] = "idle"
    /\ StartScan(g)
    /\ UNCHANGED <<unreadScanEnabled, scanRest>>

\* The toggle-scan key.
ScToggle ==
    /\ unreadScanEnabled' = ~unreadScanEnabled
    /\ UNCHANGED <<unreadScanRunning, scanPc, scanDones, unreadLastChanges,
                   scanRest>>

\* GetConversations(), the first call or the one after the refresh.
ScFetch(g, res) ==
    /\ scanPc[g] \in {"fetch", "refetch"}
    /\ res \in FetchResults
    /\ LET to == AfterFetch(res, scanPc[g] = "refetch")
       IN  IF to = "done"
           THEN MarkUnreadScanDone(g, 0)
           ELSE /\ scanPc' = [scanPc EXCEPT ![g] = to]
                /\ UNCHANGED <<unreadScanRunning, scanDones, unreadLastChanges>>
    /\ UNCHANGED <<unreadScanEnabled, scanRest>>

\* s.refreshAuthFromTeamsToken() as a whole; when it fails, err is still
\* the unauthorized error.
ScRefreshAuth(g, ok) ==
    /\ scanPc[g] = "refresh"
    /\ IF ok
       THEN /\ scanPc' = [scanPc EXCEPT ![g] = "refetch"]
            /\ UNCHANGED <<unreadScanRunning, scanDones, unreadLastChanges>>
       ELSE MarkUnreadScanDone(g, 0)
    /\ UNCHANGED <<unreadScanEnabled, scanRest>>

\* The loop over the chats and the call of QueueUpdateDraw, or a panic on
\* the way, which the deferred recover turns into markUnreadScanDone(0).
ScCompute(g, panics) ==
    /\ scanPc[g] = "compute"
    /\ IF panics
       THEN MarkUnreadScanDone(g, 0)
       ELSE /\ scanPc' = [scanPc EXCEPT ![g] = "queued"]
            /\ UNCHANGED <<unreadScanRunning, scanDones, unreadLastChanges>>
    /\ UNCHANGED <<unreadScanEnabled, scanRest>>

\* The most markers one queued update is taken to change.
MaxChanged == 1

\* The event loop runs the queued update, which ends with
\* markUnreadScanDone(changed); QueueUpdateDraw then returns.
ScUiUpdate(g, changed) ==
    /\ scanPc[g] = "queued"
    /\ ~uiSuspended
    /\ changed \in 0..MaxChanged
    /\ MarkUnreadScanDone(g, changed)
    /\ UNCHANGED <<unreadScanEnabled, scanRest>>

\* refreshUnreadMarkers returns and its goroutine is free for the next
\* tick or key; scanDones keeps the count of the scan that ended.
ScReturn(g) ==
    /\ scanPc[g] = "ret"
    /\ scanPc' = [scanPc EXCEPT ![g] = "idle"]
    /\ UNCHANGED <<unreadScanRunning, unreadScanEnabled, scanDones,
                   unreadLastChanges, scanRest>>

(***************************************************************************)
(* SpecScan: the main window is ready, the loop runs, keys are pressed.    *)
(***************************************************************************)
InitScan ==
    /\ CoordInit(Workers)
    /\ PollIdle
    /\ DeviceIdle
    /\ FallbackIdle
    /\ WrapperIdle
    /\ PagesIdle
    /\ unreadScanRunning = FALSE
    /\ unreadScanEnabled = TRUE
    /\ scanPc = [g \in Scanners |-> "idle"]
    /\ scanDones = [g \in Scanners |-> 0]
    /\ unreadLastChanges = 0

NextScan ==
    \/ ScTick
    \/ ScToggle
    \/ \E g \in Scanners :
          \/ ScScanNow(g)
          \/ \E res \in FetchResults : ScFetch(g, res)
          \/ \E ok \in BOOLEAN : ScRefreshAuth(g, ok)
          \/ \E panics \in BOOLEAN : ScCompute(g, panics)
          \/ \E changed \in 0..MaxChanged : ScUiUpdate(g, changed)
          \/ ScReturn(g)

SpecScan == InitScan /\ [][NextScan]_vars

(***************************************************************************)
(* Properties of the refresh coordinator.                                  *)
(***************************************************************************)

\* C1: at any time at most one goroutine is executing the refresh sequence
\* (device-code flow, fallback runner, client re-initialisation), and it is
\* the holder of authRefreshMu; every other outstanding call waits at Lock.
C1_OneRefreshAtATime ==
    /\ Cardinality({g \in Procs : pc[g] \in RefreshSeqPcs}) <= 1
    /\ \A g \in Procs : pc[g] \in RefreshSeqPcs => authRefreshMu = g

\* C1 witness: one call has launched the helper while two others wait.
C1_Witness ==
    \E g \in Procs :
        /\ pc[g] = "rRun"
        /\ Cardinality({h \in Procs : pc[h] = "rLock"}) >= 2

\* C2 (as claimed): a call that began while another call was outstanding
\* performs no identity-provider round trip and no helper launch of its own.
C2_SecondCallerReusesOutcome ==
    \A g \in Procs : arrivedBusy[g] => ~didAuthWork[g]

\* C3 (as claimed): no backend request goes out with a handle built before
\* a refresh that has already returned success.
C3_NoStaleHandleRequest ==
    lastIssued # "stale"

\* C4: a refresh that is about to return success has replaced s.teamsClient
\* by a handle built in that call, after the call obtained new credentials;
\* one that fails to build the handle leaves s.teamsClient as it found it.
C4_SuccessInstallsFreshClient ==
    \A g \in Procs :
        pc[g] = "rUnlock" =>
            /\ refreshErr[g] = "nil" =>
                   /\ newClient[g] # NilClient
                   /\ teamsClient = newClient[g]
                   /\ newClient[g].id > clientAtLock[g].id
                   /\ newClient[g].gen > genAtLock[g]
                   /\ newClient[g].gen = tokenGen
            /\ refreshErr[g] = "reinit" => teamsClient = clientAtLock[g]

\* C4 witness: success on the fallback path, after an earlier refresh.
C4_Witness ==
    \E g \in Procs :
        /\ pc[g] = "rUnlock"
        /\ refreshErr[g] = "nil"
        /\ deviceErr[g] = "failed"
        /\ clientAtLock[g].id > 0

\* C5: the fallback runner runs only in a call whose device-code path has
\* returned a failure (having been attempted, unless disabled); a call whose
\* device-code path succeeded never probes for, or launches, the helper.
C5_FallbackOnlyAfterDeviceFailure ==
    \A g \in Procs :
        /\ (pc[g] \in FallbackPcs \/ probed[g]) =>
               deviceErr[g] = IF envDisableDeviceCode THEN "disabled"
                              ELSE "failed"
        /\ deviceErr[g] = "nil" =>
               /\ ~probed[g]
               /\ pc[g] \in {"rNewDev", "rUnlock"}

\* C5 witness: the device-code path succeeded and the call is returning.
C5_Witness ==
    \E g \in Procs :
        /\ pc[g] = "rUnlock"
        /\ deviceErr[g] = "nil"
        /\ refreshErr[g] = "nil"
        /\ didAuthWork[g]

\* How far a goroutine is from the end of the current attempt.
PcRank(p) ==
    CASE p = "idle" -> 0
      [] p = "rRet" -> 1
      [] p = "rUnlock" -> 2
      [] p = "rNewFb" -> 3
      [] p = "rRun" -> 4
      [] p = "rWrap" -> 5
      [] p = "rBuild" -> 6
      [] p \in {"rFindDir", "rNewDev"} -> 7
      [] p = "rDevice" -> 8
      [] p = "rLock" -> 9
      [] p = "do" -> 10
      [] p = "loopTop" -> 11

\* An upper bound on the steps a call has left: the ids still to try, the
\* attempts still allowed for the current id, the position in the attempt.
StepsLeft(g) ==
    IF pc[g] = "idle" THEN 0
    ELSE (2 * itemsLeft[g] + (1 - attempt[g])) * 12 + PcRank(pc[g])

\* C27: a request path calls the refresh only on the first attempt for an
\* id (so at most once per id, and at most once per call on the paths with
\* one id), retries only after a refresh that succeeded and only once, never
\* refreshes on the retry, and every step of a call brings it nearer to its
\* end: the call returns after a bounded number of steps.
C27_Step ==
    \A g \in Procs :
        /\ attempt'[g] \in {0, 1}
        /\ pc[g] # "idle" =>
               /\ StepsLeft(g)' <= StepsLeft(g)
               /\ pc'[g] # pc[g] => StepsLeft(g)' < StepsLeft(g)
               /\ itemsLeft'[g] <= itemsLeft[g]
        /\ path'[g] \in {"sendReactionRequest", "refreshUnreadMarkers"} =>
               itemsLeft'[g] = 1
        /\ (path[g] \in RefreshingPaths /\ pc[g] # "rLock"
                                        /\ pc'[g] = "rLock") =>
               /\ attempt[g] = 0
               /\ attempt'[g] = 0
        /\ (pc[g] = "rRet" /\ pc'[g] = "loopTop"
                           /\ itemsLeft'[g] = itemsLeft[g]) =>
               /\ refreshErr[g] = "nil"
               /\ attempt'[g] = 1
        /\ (pc[g] = "rRet" /\ refreshErr[g] # "nil") => attempt'[g] = 0

C27_BoundedRefreshes == [][C27_Step]_vars

\* C27 witness: sendMessage retries the last conversation id after a
\* refresh that succeeded, the other goroutine being in a call as well.
C27_Witness ==
    \E g \in Procs :
        /\ path[g] = "sendMessage"
        /\ pc[g] = "do"
        /\ attempt[g] = 1
        /\ itemsLeft[g] = 1
        /\ lastRefreshed >= 1
        /\ \E h \in Procs \ {g} : pc[h] # "idle"

(***************************************************************************)
(* Properties of the device-code path and of the token store.              *)
(***************************************************************************)
\* The path has a token response and is past the choice of teamsToken.
PollYieldedToken ==
    tokenResp # NoTokenResp

\* C11: the device-code path writes "teams" first (the trimmed id_token if
\* that is not empty, else the trimmed access_token; with neither it fails
\* and writes nothing), then "skype", then "chatsvcagg", and it returns
\* success only when all three were written, in that order, in this attempt.
C11_SuccessOnlyWithAllThreeWritten ==
    /\ \A i \in 1..Len(written) : i <= 3 /\ written[i] = TokenKinds[i]
    /\ Len(written) <= 3
    /\ written # <<>> =>
           /\ PollYieldedToken
           /\ files["teams"].data =
                  IF TrimSpace(tokenResp.IDToken) # <<>>
                  THEN TrimSpace(tokenResp.IDToken)
                  ELSE TrimSpace(tokenResp.AccessToken)
           /\ files["teams"].data # <<>>
    /\ (/\ PollYieldedToken
        /\ TrimSpace(tokenResp.IDToken) = <<>>
        /\ TrimSpace(tokenResp.AccessToken) = <<>>) =>
           /\ devPc = "done"
           /\ devResult = "no_token"
           /\ written = <<>>
    /\ (devPc = "done" /\ devResult = "nil") =>
           /\ written = TokenKinds
           /\ files["skype"] = [exists |-> TRUE, data |-> ResourceToken("skype")]
           /\ files["chatsvcagg"] =
                  [exists |-> TRUE, data |-> ResourceToken("chatsvcagg")]

\* C11 witness: success with a blank id_token, so that "teams" holds the
\* access_token, on a host that had no token files.
C11_Witness ==
    /\ devPc = "done"
    /\ devResult = "nil"
    /\ tokenResp.IDToken = <<" ">>
    /\ files["teams"].data = <<"a", "t">>
    /\ written = TokenKinds

\* C12: a refresh_token grant is sent only after the poll returned a token
\* response and the "teams" file was written in this attempt; an attempt
\* whose poll failed sends none; and each grant carries the refresh token
\* of the poll's response, whatever happened to the other resource.
C12_RefreshOnlyAfterPrimary ==
    /\ grants # <<>> =>
           /\ PollYieldedToken
           /\ written # <<>>
           /\ written[1] = "teams"
    /\ ~PollYieldedToken => grants = <<>>
    /\ (devPc = "done" /\ devResult \in PollFailures) => grants = <<>>
    /\ \A i \in 1..Len(grants) :
           /\ grants[i].refreshToken = tokenResp.RefreshToken
           /\ grants[i].refreshToken # <<>>

\* C12 witness: both grants were sent and the second one failed.
C12_Witness ==
    /\ devPc = "done"
    /\ Len(grants) = 2
    /\ devResult = "refresh_error"
    /\ written = <<"teams", "skype">>

\* C13 (as claimed): a reader of a token file that is being written sees
\* the complete previous file or the complete new token.
C13_ReaderSeesCompleteToken ==
    (observed.kind # "none" /\ wr.open /\ wr.kind = observed.kind) =>
        observed.file \in {wr.prev, [exists |-> TRUE, data |-> wr.data]}

\* The kinds of the files written, and the resources refreshed, so far.
WrittenKinds ==
    {written[i] : i \in 1..Len(written)}

GrantLabels ==
    {grants[i].label : i \in 1..Len(grants)}

\* C21 (as claimed): when the refresh for skype has failed, the refresh for
\* chatsvcagg is performed all the same before the path returns.
C21_SecondRefreshDespiteFirstFailure ==
    (devPc = "done" /\ "skype" \in GrantLabels
                    /\ "skype" \notin WrittenKinds) =>
        "chatsvcagg" \in GrantLabels

\* C26 (as claimed): when refreshAuthFromDeviceCode returns an error, the
\* attempt has written none of the token files.
C26_ErrorLeavesStoreUntouched ==
    (devPc = "done" /\ devResult \notin {"none", "nil"}) =>
        WrittenKinds = {}

(***************************************************************************)
(* Properties of the fallback runner.                                      *)
(***************************************************************************)
\* The call is about to return an error of the fallback runner.
FallbackFailed ==
    /\ fbPc = "rUnlock"
    /\ fbErr.kind \notin {"none", "nil", "reinit"}

\* C14 (as claimed): when the device-code path was attempted and failed, and
\* the fallback runner fails too, the returned error names the device-code
\* failure as well, whatever the fallback failure is.
C14_FailureNamesBothPaths ==
    (FallbackFailed /\ fbDeviceErr = "failed") => fbErr.device

\* The runner strategies the host has the means for.
AvailableStrategies(h) ==
    {r \in {"binary", "go", "node"} :
        \/ r = "binary" /\ h.binary = "exec"
        \/ r = "go" /\ h.goMod
        \/ r = "node" /\ h.packageJson /\ ((h.yarnLock /\ h.yarn) \/ h.npm)}

\* C15 (as claimed): an error caused by a failed install, a failed wrapping
\* or a helper that exited non-zero is returned only after every runner
\* strategy the host has the means for has been attempted.
C15_NextStrategyAfterFailure ==
    (FallbackFailed /\ fbErr.kind \in WrapErrors \cup {"installFailed",
                                                        "runFailed"}) =>
        AvailableStrategies(host) \subseteq tried

\* No search root has a helper directory.
NoHelperDirectory ==
    \A i \in 1..Len(host.roots) :
        \A j \in 1..Len(TeamsTokenCandidates) :
            TeamsTokenCandidates[j] \notin host.roots[i]

\* C16: with TEAMS_CLI_DISABLE_DEVICE_CODE set, a refresh sends nothing to
\* the identity provider and goes from the device-code step straight to the
\* fallback runner; if no search root has a helper directory, it returns the
\* error that names the searched directory names, having launched nothing.
C16_DisabledSkipsToFallback ==
    envDisableDeviceCode =>
        /\ ~contacted
        /\ fbDeviceErr \in {"unset", "disabled"}
        /\ fbPc # "rNewDev"
        /\ (fbPc \notin {"idle", "rDevice", "rFindDir"}
               /\ NoHelperDirectory) =>
               /\ fbPc = "rUnlock"
               /\ fbErr.kind = "noDir"
               /\ fbErr.checked = <<"teams-token", "teams-token-cli">>
               /\ launched = {}
               /\ tried = {}

\* C16 witness: device code disabled, term.everything present, no helper.
C16_Witness ==
    /\ envDisableDeviceCode
    /\ fbPc = "rUnlock"
    /\ fbDeviceErr = "disabled"
    /\ fbErr.kind = "noDir"
    /\ host.roots = <<{}, {"term.everything"}>>

\* buildTeamsTokenCommand has returned in this call.
CommandBuilt ==
    fbCmd.runner # "unset"

\* C17 (as claimed): first match wins: the executable binary, else go.mod,
\* else package.json with the Node/Electron pipeline, which uses yarn when
\* yarn.lock exists and yarn is installed and npm otherwise, else the
\* failure that names the runners checked.
C17_FirstMatchInFixedOrder ==
    CommandBuilt =>
        /\ fbCmd.runner =
              IF host.binary = "exec" THEN "binary"
              ELSE IF host.goMod THEN "go"
              ELSE IF host.packageJson THEN "node"
              ELSE "none"
        /\ fbCmd.runner = "node" =>
              LET manager == IF host.yarnLock /\ host.yarn
                             THEN "yarn" ELSE "npm"
              IN  /\ fbCmd.installer = manager
                  /\ fbCmd.builder = manager
        /\ fbCmd.runner = "none" =>
              /\ fbCmd.err = "noRunner"
              /\ fbCmd.checked = <<"binary", "go.mod", "package.json">>

\* A host whose helper has package.json and neither binary nor go.mod, and
\* a package manager for it.
NodeOnlyHost ==
    /\ ~NoHelperDirectory
    /\ host.binary # "exec"
    /\ ~host.goMod
    /\ host.packageJson
    /\ (host.yarnLock /\ host.yarn) \/ host.npm

\* C18 (as claimed): on such a host the install command runs at most once
\* in the life of the process, however many refresh attempts there are.
C18_InstallExactlyOnce ==
    NodeOnlyHost => installRuns <= 1

\* C18 (amended): the install command runs in a refresh attempt exactly
\* when the attempt reaches the Node strategy and finds no node_modules
\* directory, so it runs again after an install that failed and left none;
\* an attempt that finds node_modules never runs it.
C18_Step ==
    /\ installRuns' # installRuns =>
           /\ installRuns' = installRuns + 1
           /\ NodeOnlyHost
           /\ fbPc = "rBuild"
           /\ ~nodeModules
    /\ (NodeOnlyHost /\ fbPc = "rBuild" /\ fbPc' # "rBuild" /\ ~nodeModules)
           => installRuns' = installRuns + 1
    /\ nodeModules => installRuns' = installRuns

C18_InstallOnlyWithoutNodeModules == [][C18_Step]_vars

\* C18 witness: the first install failed, the second one succeeded, and the
\* helper of that attempt is running.
C18_Witness ==
    /\ NodeOnlyHost
    /\ installRuns = 2
    /\ nodeModules
    /\ fbPc = "rRunning"

\* wrapWithTermEverything has returned in this call.
WrapDecided ==
    fbWrap # "unset"

C20_UiResponsiveDuringRefresh ==
    fbPc \notin {"off", "idle"} => ~uiSuspended

ResponseResults ==
    {"token", "declined", "expired_token", "malformed", "other", "transport",
     "parse"}

\* C6 (as claimed): the loop never exits with authorization_pending as its
\* latest response, and every sleep lasts at least the poll interval.
C6_PendingAlwaysRepolls ==
    /\ pollPc = "done" => payload.Error # "authorization_pending"
    /\ sleptSince => lastSleep >= interval

\* C6 (amended): after an authorization_pending response the loop sleeps for
\* at least the current poll interval, and then either sends another token
\* request or returns the expiry or the context error.
C6_PendingSleepsThenRepollsOrExpires ==
    payload.Error = "authorization_pending" =>
        /\ pollPc \in {"dispatch", "top", "send", "done"}
        /\ pollPc # "dispatch" => (sleptSince /\ lastSleep >= interval)
        /\ pollPc = "done" => pollResult \in {"expired", "ctx"}

\* C6 witness: the loop ended on expiry right after a pending response.
C6_Witness ==
    /\ pollPc = "done"
    /\ payload.Error = "authorization_pending"
    /\ pollResult = "expired"
    /\ sleptSince

\* C7: every slow_down adds one second to the poll interval, the interval
\* never decreases, and every sleep of the session lasts at least the
\* initial interval plus one second per slow_down received so far.
C7_Step ==
    /\ interval' >= interval
    /\ (pollPc = "dispatch" /\ payload.Error = "slow_down") =>
           interval' = interval + 1
    /\ (pollPc = "dispatch" /\ pollPc' = "top") =>
           lastSleep' >= IntervalFloor(device.Interval) + slowDowns'

C7_SlowDownSticky == [][C7_Step]_vars

\* C7 witness: a sleep after a pending response that follows a slow_down.
C7_Witness ==
    /\ pollPc = "top"
    /\ payload.Error = "authorization_pending"
    /\ sleptSince
    /\ slowDowns >= 1
    /\ lastSleep = IntervalFloor(device.Interval) + slowDowns

\* C8: no token request is sent once the clock has passed the deadline, a
\* session with expires_in = 1 that sees only retryable responses ends with
\* the expiry failure, and every session ends.
C8_ExpiryEndsPolling ==
    /\ [](pollPc = "send" => clock <= deadline)
    /\ []((/\ pollPc = "done"
           /\ device.ExpiresIn = 1
           /\ pollResult \notin ResponseResults) => pollResult = "expired")
    /\ <>(pollPc = "done")

\* C8 witness: expires_in = 1, a retryable response, then the expiry failure.
C8_Witness ==
    /\ pollPc = "done"
    /\ device.ExpiresIn = 1
    /\ payload.Error \in {"authorization_pending", "slow_down"}
    /\ pollResult = "expired"

\* The responses that must end the session with a failure.
FatalPayload(p) ==
    \/ p.Error \in {"authorization_declined", "expired_token", "invalid_grant"}
    \/ p.Error = "" /\ ~p.AccessToken

\* C9: a declined, expired_token, unrecognised or empty-error-without-token
\* response ends the session at once with a failure, with no sleep and no
\* further request; a token is returned only for an empty error together
\* with a non-empty access_token.
C9_FatalEndsAtOnce ==
    /\ (payload # NoPayload /\ FatalPayload(payload)) =>
           /\ pollPc \in {"dispatch", "done"}
           /\ ~sleptSince
           /\ pollPc = "done" =>
                  pollResult \in {"declined", "expired_token", "malformed",
                                  "other"}
    /\ pollResult = "token" => (payload.Error = "" /\ payload.AccessToken)

\* C9 witness: an empty error without access_token ended the session.
C9_Witness ==
    /\ pollPc = "done"
    /\ payload = [Error |-> "", AccessToken |-> FALSE]
    /\ pollResult = "malformed"
    /\ ~sleptSince

\* C10 (as claimed): once the context has ended, pollDeviceCode has returned
\* the context's error, and did so at the moment the context ended.
C10_CancelFailsFast ==
    (pollPc = "done" /\ CtxDone(clock)) =>
        /\ pollResult = "ctx"
        /\ clock = CtxTimeout

\* C22: the interval of an accepted device-code response is at least one
\* second, a provider interval of zero or less having become 5 seconds; the
\* poll loop's interval is at least one second, and so is every sleep
\* between two token requests.
C22_IntervalAtLeastOneSecond ==
    pollPc # "off" =>
        /\ device.Interval >= 1
        /\ device.Interval \in {i \in RawIntervals : i > 0}
                                \cup {DefaultInterval}
        /\ pollPc # "start" => interval >= 1
        /\ sleptSince => lastSleep >= 1

\* C22 witness: the provider's interval was zero or negative, and the loop
\* has slept the default interval after a pending response.
C22_Witness ==
    /\ pollPc = "top"
    /\ device.Interval = DefaultInterval
    /\ DefaultInterval \notin RawIntervals
    /\ payload.Error = "authorization_pending"
    /\ sleptSince
    /\ lastSleep = DefaultInterval

\* C29 (as claimed): pollDeviceCode returns the expiry error only after it
\* has sent a token request and got a response.
C29_RequestBeforeExpiry ==
    (pollPc = "done" /\ pollResult = "expired") => payload # NoPayload

(***************************************************************************)
(* Properties of the Xwayland wrapper script.                              *)
(***************************************************************************)
\* C24: the window manager and the helper are started only after a test
\* has found the X server's socket file; the wait loop tests the socket at
\* most 50 times and sleeps at most 50 tenths of a second in all; if the
\* socket never appeared, the script exits with status 1, the window manager
\* and the helper never started.
C24_StartOnlyAfterSocket ==
    /\ xwI <= SocketPolls
    /\ xwSlept <= SocketPolls
    /\ xwSlept <= xwI
    /\ (xwProc["wm"] # "none" \/ xwProc["helper"] # "none") => xwSeen
    /\ xwProc["helper"] # "none" => xwProc["wm"] # "none"
    /\ (xwPc = "exited" /\ ~xwSeen) =>
           /\ xwStatus = 1
           /\ xwProc["wm"] = "none"
           /\ xwProc["helper"] = "none"

\* C24 witness: the socket never appeared, the loop ran out after its last
\* sleep, and the script has exited with failure.
C24_Witness ==
    /\ xwPc = "exited"
    /\ xwI = SocketPolls
    /\ xwSlept = SocketPolls
    /\ ~xwSeen
    /\ xwStatus = 1

\* C25: once the script has exited, with whatever status, no background
\* process it started is still running, and the EXIT trap has signalled
\* each of them (Xwayland and, if it was started, the window manager).
C25_NoBackgroundProcessOutlives ==
    xwPc = "exited" =>
        /\ \A p \in BackgroundProcs : xwProc[p] # "running"
        /\ xwKilled = {p \in BackgroundProcs : xwProc[p] # "none"}
        /\ xwProc["Xwayland"] # "none"

\* C25 witness: the helper exited non-zero and both background processes
\* were terminated by the trap.
C25_Witness ==
    /\ xwPc = "exited"
    /\ xwStatus = 1
    /\ xwProc["helper"] = "exited"
    /\ xwProc["Xwayland"] = "killed"
    /\ xwProc["wm"] = "killed"

(***************************************************************************)
(* Properties of the pages.                                                *)
(***************************************************************************)
\* C28 (as claimed): whenever the main page is shown, TeamsState.init has
\* succeeded and fillMainWindow has set the chat tree.
C28_MainPageOnlyWhenBuilt ==
    page = "main" => (stateInit /\ treeFilled)

(***************************************************************************)
(* Properties of the unread scans.                                         *)
(***************************************************************************)
\* The goroutines whose scan is in flight: markUnreadScanStart has returned
\* true to them and their scan has not called markUnreadScanDone yet.
ScansInFlight ==
    {g \in Scanners :
        scanPc[g] \in {"fetch", "refresh", "refetch", "compute", "queued"}}

\* C30: at most one scan is in flight, unreadScanRunning is true exactly
\* when one is, and a scan that has ended, on whatever path, has called
\* markUnreadScanDone exactly once.
C30_FlagTracksTheOneScan ==
    /\ Cardinality(ScansInFlight) <= 1
    /\ unreadScanRunning <=> ScansInFlight # {}
    /\ \A g \in Scanners :
          /\ g \in ScansInFlight => scanDones[g] = 0
          /\ scanPc[g] = "ret" => scanDones[g] = 1
          /\ scanDones[g] <= 1

\* C30 witness: a scan started by the scan-now key is waiting for its queued
\* update while the ticker loop and the other key start nothing.
C30_Witness ==
    /\ scanPc["key1"] = "queued"
    /\ scanPc["loop"] = "idle"
    /\ scanPc["key2"] = "ret"
    /\ unreadScanEnabled
    /\ unreadScanRunning

====
